---- MODULE Spec2Model ----
(***************************************************************************)
(* The text discrepancy detection engine of the QA content check           *)
(* (src/tests): normalization, whitespace-invariant alignment, context     *)
(* mapping, severity classification and the severity filter of the report  *)
(* renderers.                                                              *)
(*                                                                         *)
(* Text is a TLA+ string.  Offsets are Python's: 0-based, ranges           *)
(* half-open.  A module file holds ASCII only, so the non-ASCII code       *)
(* points the code names are written as otherwise unused ASCII characters  *)
(* (the definitions U_2014 .. U_00E9 below give the table).                *)
(***************************************************************************)
EXTENDS Integers, Sequences, FiniteSets, TLC

VARIABLES
    pc,             \* which operation has run, per specification
    pdf_snippet,    \* classify_discrepancy: its arguments ...
    html_snippet,
    description,
    pdf_diff,
    html_diff,
    result          \* ... and what the call gave: a Discrepancy, or an exception

classify_vars == <<pdf_snippet, html_snippet, description, pdf_diff, html_diff, result>>

VARIABLES
    raw_text,               \* normalize_text: its text argument,
    remove_pdf_artifacts,   \* its flag,
    normalized,             \* what it returned,
    renormalized            \* and normalize_text(normalized, False)

normalize_vars == <<raw_text, remove_pdf_artifacts, normalized, renormalized>>

VARIABLES
    raw_pdf,            \* compare_chapter: the text of the chapter's .txt file,
    raw_html,           \* the text of the body of its HTML source,
    pdf_text,           \* the two normalized texts,
    html_text,
    pdf_stripped,       \* each without whitespace, with its index map,
    pdf_map,
    html_stripped,
    html_map,
    opcodes,            \* matcher.get_opcodes(),
    op_idx,             \* how many of them the loop has been through,
    pdf_orig,           \* the last original <<start, end>> computed, each side,
    html_orig,
    discrepancies,      \* the list being built,
    exception           \* and the exception that ended the call, if any

compare_vars == <<raw_pdf, raw_html, pdf_text, html_text, pdf_stripped, pdf_map,
                  html_stripped, html_map, opcodes, op_idx, pdf_orig, html_orig,
                  discrepancies, exception>>

VARIABLES
    results,            \* the reports: chapter_id -> list of Discrepancy,
    severity_filter,    \* the filter, a Severity or None,
    console_report,     \* what print_console_report printed, if it ran,
    markdown_report,    \* the Markdown file, if written,
    json_report         \* the JSON file, if written

report_vars == <<results, severity_filter, console_report, markdown_report, json_report>>

VARIABLES
    caller,             \* a batch: "compare_chapters" or "main",
    chapters,           \* the chapter identifiers asked for, in order,
    files,              \* the names of the source files that exist,
    mode,               \* main: "algo", "llm" or "all",
    output_format,      \* args.format,
    report_path,        \* args.report, or None,
    commit,             \* what _get_git_commit() gives,
    report_file,        \* the file at report_path: whether it exists, and its blocks,
    skip_chapters,      \* the chapters the run takes as already tested,
    idx,                \* how many chapters the loop has been through,
    calls,              \* the calls of compare_chapter so far, with what each gave,
    completed_count,
    llm_results,        \* main: what check_chapters_with_llm returned, once called,
    exit_code           \* what main returned, or None

batch_vars == <<caller, chapters, files, mode, output_format, report_path, commit,
                report_file, skip_chapters, idx, calls, completed_count, llm_results,
                exit_code>>

VARIABLES
    requests,           \* concurrent calls of compare_chapter: the argument of each,
    workers,            \* the locals of each,
    disk                \* and the names of the source files that exist

worker_vars == <<requests, workers, disk>>

VARIABLES
    total_pages,        \* split_pdf_into_chunks: len(reader.pages),
    chunk_size,         \* its arguments,
    overlap,
    io_error_at,        \* the number of the chunk whose write raises (0: the read
                        \* raises; beyond the last chunk: nothing raises),
    current_page,       \* its locals,
    chunk_index,
    chunk_pages,        \* the <<first, last>> original page numbers of each chunk,
    split_exit          \* and how the call ended, or None

chunk_vars == <<total_pages, chunk_size, overlap, io_error_at, current_page, chunk_index,
                chunk_pages, split_exit>>

VARIABLES
    retries,            \* make_api_call_with_retry: its counter,
    attempts,           \* what each call of model.generate_content gave, in order,
    sleeps,             \* the arguments of the calls of time.sleep, in order,
    api_exit            \* and how the call ended, or None

retry_vars == <<retries, attempts, sleeps, api_exit>>

vars == <<pc, classify_vars, normalize_vars, compare_vars, report_vars, batch_vars,
          worker_vars, chunk_vars, retry_vars>>

\* the value of a variable that a specification does not use
Idle == "idle"

\* the value of a variable that holds no result yet (Python's None)
None == "None"

\* the concatenations of at most n tokens of the vocabulary V
RECURSIVE Texts(_, _)
Texts(V, n) ==
    IF n = 0 THEN {""}
    ELSE LET T == Texts(V, n - 1) IN T \cup {t \o v : t \in T, v \in V}

-----------------------------------------------------------------------------
(* Python built-ins on str and int *)

Min(a, b) == IF a < b THEN a ELSE b

Max(a, b) == IF a > b THEN a ELSE b

\* s[i]
At(s, i) == SubSeq(s, i + 1, i + 1)

\* s[lo:hi] for lo, hi >= 0 (Python clamps both to len(s))
Slice(s, lo, hi) == SubSeq(s, Min(lo, Len(s)) + 1, Min(hi, Len(s)))

\* Stand-ins for the non-ASCII code points of normalize_unicode and _BULLET_RE
U_2018 == "@"     \* LEFT SINGLE QUOTATION MARK
U_2019 == "#"     \* RIGHT SINGLE QUOTATION MARK
U_201C == "{"     \* LEFT DOUBLE QUOTATION MARK
U_201D == "}"     \* RIGHT DOUBLE QUOTATION MARK
U_2014 == "~"     \* EM DASH
U_2013 == "="     \* EN DASH
U_00A0 == "_"     \* NO-BREAK SPACE (whitespace, not a word character)
U_2026 == "^"     \* HORIZONTAL ELLIPSIS
U_00AD == "["     \* SOFT HYPHEN
U_2022 == "*"     \* BULLET
U_0301 == "$"     \* COMBINING ACUTE ACCENT
U_00E9 == "%"     \* LATIN SMALL LETTER E WITH ACUTE (NFC of "e" + U+0301)
U_2192 == "&"     \* RIGHTWARDS ARROW (in the descriptions)
U_0060 == "]"     \* GRAVE ACCENT (the backtick of the report's commit line)

Digits == {"0", "1", "2", "3", "4", "5", "6", "7", "8", "9"}

LowerAZ == {"a", "b", "c", "d", "e", "f", "g", "h", "i", "j", "k", "l", "m",
            "n", "o", "p", "q", "r", "s", "t", "u", "v", "w", "x", "y", "z"}

UpperAZ == {"A", "B", "C", "D", "E", "F", "G", "H", "I", "J", "K", "L", "M",
            "N", "O", "P", "Q", "R", "S", "T", "U", "V", "W", "X", "Y", "Z"}

\* str.isspace(), and \s of a str pattern
Whitespace == {" ", "\t", "\n", "\r", "\f", U_00A0}

\* \w of a str pattern: alphanumerics and the underscore (the stand-in of
\* U+00A0 is spelled "_" here and is not the underscore)
WordChars == LowerAZ \cup UpperAZ \cup Digits \cup {U_00E9}

ToLower == "A" :> "a" @@ "B" :> "b" @@ "C" :> "c" @@ "D" :> "d" @@ "E" :> "e" @@
           "F" :> "f" @@ "G" :> "g" @@ "H" :> "h" @@ "I" :> "i" @@ "J" :> "j" @@
           "K" :> "k" @@ "L" :> "l" @@ "M" :> "m" @@ "N" :> "n" @@ "O" :> "o" @@
           "P" :> "p" @@ "Q" :> "q" @@ "R" :> "r" @@ "S" :> "s" @@ "T" :> "t" @@
           "U" :> "u" @@ "V" :> "v" @@ "W" :> "w" @@ "X" :> "x" @@ "Y" :> "y" @@
           "Z" :> "z"

ToUpper == "a" :> "A" @@ "b" :> "B" @@ "c" :> "C" @@ "d" :> "D" @@ "e" :> "E" @@
           "f" :> "F" @@ "g" :> "G" @@ "h" :> "H" @@ "i" :> "I" @@ "j" :> "J" @@
           "k" :> "K" @@ "l" :> "L" @@ "m" :> "M" @@ "n" :> "N" @@ "o" :> "O" @@
           "p" :> "P" @@ "q" :> "Q" @@ "r" :> "R" @@ "s" :> "S" @@ "t" :> "T" @@
           "u" :> "U" @@ "v" :> "V" @@ "w" :> "W" @@ "x" :> "X" @@ "y" :> "Y" @@
           "z" :> "Z"

LowerChar(c) == IF c \in UpperAZ THEN ToLower[c] ELSE c

\* the strings (or the tuples) pieces[lo] .. pieces[hi], lo <= hi, joined
RECURSIVE Concat(_, _, _)
Concat(pieces, lo, hi) ==
    IF lo = hi THEN pieces[lo]
    ELSE LET mid == (lo + hi) \div 2
         IN Concat(pieces, lo, mid) \o Concat(pieces, mid + 1, hi)

\* "".join(pieces)
JoinStr(pieces) == IF Len(pieces) = 0 THEN "" ELSE Concat(pieces, 1, Len(pieces))

\* the lists of a list, one after the other
Flatten(lists) == IF Len(lists) = 0 THEN <<>> ELSE Concat(lists, 1, Len(lists))

\* str.lower()
lower(s) == JoinStr([n \in 1..Len(s) |-> LowerChar(At(s, n - 1))])

\* the first offset in lo..hi-1 whose character is not in set S, or hi
FirstOutside(s, lo, hi, S) ==
    IF \A j \in lo..(hi - 1) : At(s, j) \in S THEN Max(lo, hi)
    ELSE CHOOSE j \in lo..(hi - 1) :
            At(s, j) \notin S /\ \A k \in lo..(j - 1) : At(s, k) \in S

\* number of leading characters of s, from offset i, that are in set S
SpanIn(s, i, S) == FirstOutside(s, i, Len(s), S) - i

\* number of trailing characters of s[:n] that are in set S
SpanBack(s, n, S) ==
    IF \A j \in 0..(n - 1) : At(s, j) \in S THEN Max(n, 0)
    ELSE n - 1 - (CHOOSE j \in 0..(n - 1) :
                     At(s, j) \notin S /\ \A k \in (j + 1)..(n - 1) : At(s, k) \in S)

\* str.rstrip(chars)
rstrip(s, S) == Slice(s, 0, Len(s) - SpanBack(s, Len(s), S))

\* str.strip()
strip(s) ==
    LET lead == SpanIn(s, 0, Whitespace)
    IN IF lead = Len(s) THEN ""
       ELSE Slice(s, lead, Len(s) - SpanBack(s, Len(s), Whitespace))

-----------------------------------------------------------------------------
(* The re module: a pattern is a sequence of nodes, matched with Python's  *)
(* backtracking order (a greedy quantifier tries the longest count first,  *)
(* a lazy one the shortest).  Match gives the end offset of the match that *)
(* starts at pos, or -1.  Long patterns and texts are split in halves, so  *)
(* that the evaluation stays shallow.                                      *)

Unbounded == -1

NoMatch == -1

\* [S]{lo,hi}
Chars(S, lo, hi) == [k |-> "set", in |-> S, neg |-> FALSE, min |-> lo, max |-> hi, lazy |-> FALSE]

\* [^S]{lo,hi}
NotChars(S, lo, hi) == [k |-> "set", in |-> S, neg |-> TRUE, min |-> lo, max |-> hi, lazy |-> FALSE]

\* a quantifier followed by ?
Lazy(node) == [node EXCEPT !.lazy = TRUE]

\* one literal character
Lit(c) == Chars({c}, 1, 1)

\* one literal letter under re.IGNORECASE
LitI(c) == Chars({c, IF c \in UpperAZ THEN ToLower[c] ELSE IF c \in LowerAZ THEN ToUpper[c] ELSE c}, 1, 1)

\* (...){lo,hi}, greedy
Group(items, lo, hi) == [k |-> "grp", items |-> items, min |-> lo, max |-> hi]

\* (?=...)
Lookahead(items) == [k |-> "look", items |-> items]

\* \b
WordBoundary == [k |-> "wb"]

\* $
EndAnchor == [k |-> "end"]

\* a literal word under re.IGNORECASE, letters separated by \s*
RECURSIVE SpacedI(_, _)
SpacedI(w, i) ==
    IF i >= Len(w) THEN <<>>
    ELSE (IF i = 0 THEN <<>> ELSE <<Chars(Whitespace, 0, Unbounded)>>)
         \o <<LitI(At(w, i))>> \o SpacedI(w, i + 1)

\* a literal word under re.IGNORECASE
RECURSIVE WordI(_, _)
WordI(w, i) == IF i >= Len(w) THEN <<>> ELSE <<LitI(At(w, i))>> \o WordI(w, i + 1)

InClass(node, c) == (c \in node.in) # node.neg

\* how many characters from pos on, at most cap, are in the class of node
RunLen(node, text, pos, cap) ==
    LET hi == Min(Len(text), pos + cap)
    IN IF \A j \in pos..(hi - 1) : InClass(node, At(text, j)) THEN Max(hi - pos, 0)
       ELSE (CHOOSE j \in pos..(hi - 1) :
                /\ ~InClass(node, At(text, j))
                /\ \A k \in pos..(j - 1) : InClass(node, At(text, k))) - pos

IsWordChar(text, i) == i >= 0 /\ i < Len(text) /\ At(text, i) \in WordChars

IsWordBoundary(text, pos) == IsWordChar(text, pos - 1) # IsWordChar(text, pos)

AtEnd(text, pos) ==
    \/ pos = Len(text)
    \/ pos = Len(text) - 1 /\ At(text, pos) = "\n"

\* The ends of the ways to match, in the order in which backtracking tries
\* them: Ends for items[lo..hi] from the offsets P (themselves in that
\* order), Step for one node, GroupEnds for a group repeated lo to hi times
\* from offset p.
RECURSIVE Ends(_, _, _, _, _), Step(_, _, _), GroupEnds(_, _, _, _, _), GroupMore(_, _, _, _, _)
Ends(items, lo, hi, text, P) ==
    IF P = <<>> \/ lo > hi THEN P
    ELSE IF lo = hi THEN Step(items[lo], text, P)
    ELSE LET mid == (lo + hi) \div 2
         IN Ends(items, mid + 1, hi, text, Ends(items, lo, mid, text, P))

\* a quantified class from offset p: the counts from the longest down to min
\* when greedy, from min up when lazy
CountsOf(it, p, run) ==
    IF run < it.min THEN <<>>
    ELSE [n \in 1..(run - it.min + 1) |->
             IF it.lazy THEN p + it.min + n - 1 ELSE p + run - n + 1]

Counts(it, text, p) ==
    CountsOf(it, p, RunLen(it, text, p, IF it.max = Unbounded THEN Len(text) ELSE it.max))

Step(it, text, P) ==
    CASE it.k = "set" -> Flatten([n \in 1..Len(P) |-> Counts(it, text, P[n])])
      [] it.k = "grp" ->
            Flatten([n \in 1..Len(P) |-> GroupEnds(it, text, P[n], it.min, it.max)])
      [] it.k = "look" ->
            SelectSeq(P, LAMBDA p : Ends(it.items, 1, Len(it.items), text, <<p>>) # <<>>)
      [] it.k = "wb" -> SelectSeq(P, LAMBDA p : IsWordBoundary(text, p))
      [] it.k = "end" -> SelectSeq(P, LAMBDA p : AtEnd(text, p))

\* one more repetition first, then, when lo allows, none
GroupEnds(it, text, p, lo, hi) ==
    (IF hi = 0 THEN <<>>
     ELSE GroupMore(it, text, Ends(it.items, 1, Len(it.items), text, <<p>>), Max(0, lo - 1),
                    IF hi = Unbounded THEN Unbounded ELSE hi - 1))
    \o (IF lo = 0 THEN <<p>> ELSE <<>>)

\* the repetitions that go on from the ends of one
GroupMore(it, text, once, lo, hi) ==
    Flatten([n \in 1..Len(once) |-> GroupEnds(it, text, once[n], lo, hi)])

\* the end of the match that starts at pos, or -1
FirstEnd(ends) == IF ends = <<>> THEN NoMatch ELSE ends[1]

Match(items, text, pos) == FirstEnd(Ends(items, 1, Len(items), text, <<pos>>))

\* pattern.match(text)
re_match(items, text) == Match(items, text, 0) # NoMatch

\* pattern.search(text)
re_search(items, text) == \E pos \in 0..Len(text) : Match(items, text, pos) # NoMatch

\* per offset p (at index p + 1), the end of the match that starts there
MatchEnds(items, text) == [q \in 1..(Len(text) + 1) |-> Match(items, text, q - 1)] \o <<>>

\* per offset p (at index p + 1), where the scan of sub and finditer goes
\* next: past the match that starts at p, or one character on (no pattern
\* of the program matches the empty string)
ScanStep(ends) ==
    [q \in 1..Len(ends) |->
        IF q = Len(ends) THEN q - 1
        ELSE IF ends[q] # NoMatch /\ ends[q] > q - 1 THEN ends[q]
        ELSE q] \o <<>>

\* the offsets reached from those of V by jump, jump twice, four times, ...
RECURSIVE Reached(_, _)
Reached(jump, V) ==
    LET W == V \cup {jump[p + 1] : p \in V}
    IN IF W = V THEN V
       ELSE Reached([q \in 1..Len(jump) |-> jump[jump[q] + 1]] \o <<>>, W)

\* the offsets at which the scan stands, from 0 to the end of the text
ScanOffsets(ends) == Reached(ScanStep(ends), {0})

\* whether the scan finds a match at offset p
Found(ends, at, p) == p \in at /\ ends[p + 1] # NoMatch /\ ends[p + 1] > p

\* the matches the scan finds, left to right, as <<start, end>>
SpansAt(text, ends, at) ==
    Flatten([q \in 1..Len(text) |->
                IF Found(ends, at, q - 1) THEN <<(<<q - 1, ends[q]>>)>> ELSE <<>>])

SpansOf(text, ends) == SpansAt(text, ends, ScanOffsets(ends))

\* the non-overlapping matches, left to right, as <<start, end>>
MatchSpans(items, text) == SpansOf(text, MatchEnds(items, text))

\* the text with the match the scan finds at each offset p replaced by
\* repl[p + 1]
SubAt(text, ends, at, repl) ==
    JoinStr([q \in 1..Len(text) |->
                IF q - 1 \notin at THEN ""
                ELSE IF Found(ends, at, q - 1) THEN repl[q]
                ELSE At(text, q - 1)])

SubOf(text, ends, repl) == SubAt(text, ends, ScanOffsets(ends), repl)

\* pattern.sub(repl, text) for a repl without group references
re_sub(items, text, repl) ==
    SubOf(text, MatchEnds(items, text), [q \in 1..Len(text) |-> repl])

\* pattern.sub("", text)
re_sub_empty(items, text) == re_sub(items, text, "")

\* pattern.sub(" ", text)
re_sub_space(items, text) == re_sub(items, text, " ")

\* the texts of the matches spans, in order
MatchTexts(text, spans) == [n \in 1..Len(spans) |-> Slice(text, spans[n][1], spans[n][2])]

\* re.findall(pattern, text) for a pattern without groups
re_findall(items, text) == MatchTexts(text, MatchSpans(items, text))

Range(list) == {list[n] : n \in 1..Len(list)}

\* str.split(): the set of the maximal runs of non-whitespace characters
WordSet(text) == Range(re_findall(<<NotChars(Whitespace, 1, Unbounded)>>, text))

-----------------------------------------------------------------------------
(* text_extractor.py: normalization *)

\* \s*
Ws0 == Chars(Whitespace, 0, Unbounded)

\* \s+
Ws1 == Chars(Whitespace, 1, Unbounded)

\* \d+
Digits1 == Chars(Digits, 1, Unbounded)

\* [\w\s]
WordOrSpace == WordChars \cup Whitespace

\* C\s*O\s*M\s*P\s*E\s*N\s*D\s*I\s*U\s*M\s+O\s*F\s+U\s*\.?\s*S\s*\.?
\* \s+C\s*O\s*P\s*Y\s*R\s*I\s*G\s*H\s*T\s+O\s*F\s*F\s*I\s*C\s*E
\* \s+P\s*R\s*A\s*C\s*T\s*I\s*C\s*E\s*S\s*,?\s*Third\s+Edition   with re.IGNORECASE
_PDF_HEADER_RE ==
    SpacedI("COMPENDIUM", 0) \o <<Ws1>> \o SpacedI("OF", 0) \o <<Ws1>>
    \o <<LitI("U"), Ws0, Chars({"."}, 0, 1), Ws0, LitI("S"), Ws0, Chars({"."}, 0, 1)>>
    \o <<Ws1>> \o SpacedI("COPYRIGHT", 0) \o <<Ws1>> \o SpacedI("OFFICE", 0)
    \o <<Ws1>> \o SpacedI("PRACTICES", 0) \o <<Ws0, Chars({","}, 0, 1), Ws0>>
    \o WordI("Third", 0) \o <<Ws1>> \o WordI("Edition", 0)

\* C\s*O\s*M\s*P\s*E\s*N\s*D\s*I\s*U\s*M\s*:\s*Chapter\s+\d+   with re.IGNORECASE
_PDF_SHORT_HEADER_RE ==
    SpacedI("COMPENDIUM", 0) \o <<Ws0, Lit(":"), Ws0>> \o WordI("Chapter", 0)
    \o <<Ws1, Digits1>>

\* [\w\s]{3,40}?\s*:\s*\d+\s+\d{2}/\d{2}/\d{4}
_PDF_FOOTER_RE ==
    <<Lazy(Chars(WordOrSpace, 3, 40)), Ws0, Lit(":"), Ws0, Digits1, Ws1,
      Chars(Digits, 2, 2), Lit("/"), Chars(Digits, 2, 2), Lit("/"), Chars(Digits, 4, 4)>>

\* [.\s]{6,}\d+
_TOC_DOTS_RE == <<Chars({"."} \cup Whitespace, 6, Unbounded), Digits1>>

\* \.{3,}[\s.]*
_TOC_DOT_RUNS_RE == <<Chars({"."}, 3, Unbounded), Chars({"."} \cup Whitespace, 0, Unbounded)>>

\* Overview\s+of\s*(?:the\s+)?\w[\w\s]*?(?=\d{3}\s)   with re.IGNORECASE
_PDF_OVERVIEW_RE ==
    WordI("Overview", 0) \o <<Ws1>> \o WordI("of", 0) \o <<Ws0>>
    \o <<Group(WordI("the", 0) \o <<Ws1>>, 0, 1)>>
    \o <<Chars(WordChars, 1, 1), Lazy(Chars(WordOrSpace, 0, Unbounded)),
         Lookahead(<<Chars(Digits, 3, 3), Chars(Whitespace, 1, 1)>>)>>

\* the bullet glyphs; of the five only U+2022 is in the model's alphabet
Bullets == {U_2022}

\* [bullets]\s*
_BULLET_RE == <<Chars(Bullets, 1, 1), Ws0>>

\* \b([a-z]{2,4})\s([a-z]{3,})\b
_WORD_FRAGMENT_RE ==
    <<WordBoundary, Chars(LowerAZ, 2, 4), Chars(Whitespace, 1, 1),
      Chars(LowerAZ, 3, Unbounded), WordBoundary>>

\* \s+
_MULTI_WS_RE == <<Ws1>>

\* letters-only tags: closing tags and tags with attributes are not matched
XmlTagLettersOnly == <<Lit("<"), Chars(LowerAZ \cup UpperAZ, 1, Unbounded), Lit(">")>>

\* <[^>]+>
_XML_TAG_RE == <<Lit("<"), NotChars({">"}, 1, Unbounded), Lit(">")>>

\* the replacements dict of normalize_unicode, in its order
replacements ==
    <<(<<U_2018, "'">>), (<<U_2019, "'">>), (<<U_201C, "\"">>), (<<U_201D, "\"">>),
      (<<U_2014, "--">>), (<<U_2013, "-">>), (<<U_00A0, " ">>), (<<U_2026, "...">>),
      (<<U_00AD, "">>)>>

\* str.replace(orig, repl) for a one-character orig
str_replace(text, orig, repl) ==
    JoinStr([n \in 1..Len(text) |-> IF At(text, n - 1) = orig THEN repl ELSE At(text, n - 1)])

RECURSIVE ApplyReplacements(_, _)
ApplyReplacements(text, n) ==
    IF n > Len(replacements) THEN text
    ELSE ApplyReplacements(str_replace(text, replacements[n][1], replacements[n][2]), n + 1)

\* unicodedata.normalize("NFC", text) on the model's alphabet, where U+0301
\* follows no letter but "e": the pair "e" U+0301 composes to U+00E9, nothing
\* else composes or decomposes
NFC(text) ==
    JoinStr([n \in 1..Len(text) |->
                IF At(text, n - 1) = "e" /\ n < Len(text) /\ At(text, n) = U_0301 THEN U_00E9
                ELSE IF At(text, n - 1) = U_0301 /\ n > 1 /\ At(text, n - 2) = "e" THEN ""
                ELSE At(text, n - 1)])

normalize_unicode(text) == NFC(ApplyReplacements(text, 1))

\* _WORD_FRAGMENT_RE.sub(r"\1\2", text): each match without the one
\* whitespace character between its two groups; group 1 is the run of
\* lowercase letters the match starts with
Joined(text, start, end) ==
    Slice(text, start, start + SpanIn(text, start, LowerAZ))
    \o Slice(text, start + SpanIn(text, start, LowerAZ) + 1, end)

JoinedAt(text, ends) ==
    SubOf(text, ends, [q \in 1..Len(text) |-> Joined(text, q - 1, ends[q])])

JoinFragments(text) == JoinedAt(text, MatchEnds(_WORD_FRAGMENT_RE, text))

\* for _ in range(3): substitute, stop when nothing changed
RECURSIVE FixPasses(_, _)
FixPasses(text, left) ==
    IF left = 0 THEN text
    ELSE LET new_text == JoinFragments(text)
         IN IF new_text = text THEN text ELSE FixPasses(new_text, left - 1)

FragmentPasses == 3

_fix_word_fragments(text) == FixPasses(text, FragmentPasses)

\* the artifact removals of normalize_text, in their order
RemoveArtifacts(text) ==
    LET t1 == re_sub_empty(_XML_TAG_RE, text)
        t2 == re_sub_empty(_PDF_HEADER_RE, t1)
        t3 == re_sub_empty(_PDF_SHORT_HEADER_RE, t2)
        t4 == re_sub_empty(_PDF_FOOTER_RE, t3)
        t5 == re_sub_empty(_TOC_DOTS_RE, t4)
        t6 == re_sub_empty(_TOC_DOT_RUNS_RE, t5)
        t7 == re_sub_empty(_PDF_OVERVIEW_RE, t6)
        t8 == re_sub_empty(_BULLET_RE, t7)
    IN _fix_word_fragments(t8)

\* normalize_text without the final strip()
normalize_text_unstripped(text, remove_artifacts) ==
    LET folded == normalize_unicode(text)
        cleaned == IF remove_artifacts THEN RemoveArtifacts(folded) ELSE folded
    IN re_sub_space(_MULTI_WS_RE, cleaned)

normalize_text(text, remove_artifacts) ==
    LET folded == normalize_unicode(text)
        cleaned == IF remove_artifacts THEN RemoveArtifacts(folded) ELSE folded
    IN strip(re_sub_space(_MULTI_WS_RE, cleaned))

-----------------------------------------------------------------------------
(* severity.py *)

\* class Severity
LOW == "LOW"

MEDIUM == "MEDIUM"

HIGH == "HIGH"

Severity == {LOW, MEDIUM, HIGH}

\* @dataclass Discrepancy; source defaults to 'algorithmic'
Discrepancy(sev, chap, loc, pdf, html, desc) ==
    [severity |-> sev, chapter |-> chap, location |-> loc,
     pdf_text |-> pdf, html_text |-> html, description |-> desc,
     source |-> "algorithmic"]

_PDF_HEADER_WORDS == {"compendium", "copyright", "office", "practices", "third", "edition"}

AlnumAZ == UpperAZ \cup LowerAZ \cup Digits

\* (?:\.\d+)?
OptDecimal == Group(<<Lit("."), Chars(Digits, 1, Unbounded)>>, 0, 1)

\* \d+\.\d+(\([A-Za-z0-9]+\))*
_SECTION_NUM_RE ==
    <<Chars(Digits, 1, Unbounded), Lit("."), Chars(Digits, 1, Unbounded),
      Group(<<Lit("("), Chars(AlnumAZ, 1, Unbounded), Lit(")")>>, 0, Unbounded)>>

\* (\d{3,4}(?:\.\d+)?\s+[A-Z][a-z]+\s+){3,}
_TOC_PATTERN_RE ==
    <<Group(<<Chars(Digits, 3, 4), OptDecimal, Chars(Whitespace, 1, Unbounded),
              Chars(UpperAZ, 1, 1), Chars(LowerAZ, 1, Unbounded),
              Chars(Whitespace, 1, Unbounded)>>, 3, Unbounded)>>

\* (\d{3,4}(?:\.\d+)?[A-Z][a-z]+){3,}
_TOC_STRIPPED_RE ==
    <<Group(<<Chars(Digits, 3, 4), OptDecimal,
              Chars(UpperAZ, 1, 1), Chars(LowerAZ, 1, Unbounded)>>, 3, Unbounded)>>

\* a delimiter pattern that asks for the leading period
SectionDelimPeriodFirst ==
    <<Chars({"."}, 1, 1), Chars(Whitespace, 0, Unbounded), Chars(Digits, 3, 4), OptDecimal,
      Chars(Whitespace, 0, Unbounded), Chars({"."}, 0, 1), EndAnchor>>

\* ^\.?\s*\d{3,4}(?:\.\d+)?\s*\.?$  (used with match, which anchors the start)
_SECTION_DELIM_RE ==
    <<Chars({"."}, 0, 1), Chars(Whitespace, 0, Unbounded), Chars(Digits, 3, 4), OptDecimal,
      Chars(Whitespace, 0, Unbounded), Chars({"."}, 0, 1), EndAnchor>>

\* chapter\s+\d+\s*:\s*\d+\s+\d{2}/\d{2}/\d{4}  with re.I
SeverityFooterRe ==
    WordI("chapter", 0) \o
    <<Chars(Whitespace, 1, Unbounded), Chars(Digits, 1, Unbounded),
      Chars(Whitespace, 0, Unbounded), Lit(":"), Chars(Whitespace, 0, Unbounded),
      Chars(Digits, 1, Unbounded), Chars(Whitespace, 1, Unbounded),
      Chars(Digits, 2, 2), Lit("/"), Chars(Digits, 2, 2), Lit("/"), Chars(Digits, 4, 4)>>

\* \s+
WhitespaceRun == <<Chars(Whitespace, 1, Unbounded)>>

_is_whitespace_only_diff(pdf, html) ==
    LET pdf_clean == re_sub_empty(WhitespaceRun, pdf)
        html_clean == re_sub_empty(WhitespaceRun, html)
    IN pdf_clean = html_clean

_is_case_only_diff(pdf, html) == lower(pdf) = lower(html)

\* len(words) > 0 and len(words & _PDF_HEADER_WORDS) / len(words) > 0.5
MostlyHeaderWords(words) ==
    /\ Cardinality(words) > 0
    /\ 2 * Cardinality(words \cap _PDF_HEADER_WORDS) > Cardinality(words)

_is_pdf_header_footer(text) ==
    MostlyHeaderWords(WordSet(lower(text))) \/ re_match(SeverityFooterRe, text)

PunctChars == {".", ",", ";", ":", "!", "?", " "}

_is_punctuation_only(pdf, html) ==
    LET pdf_rstripped == rstrip(pdf, PunctChars)
        html_rstripped == rstrip(html, PunctChars)
    IN pdf_rstripped = html_rstripped /\ pdf # html

\* _SECTION_NUM_RE.findall(text) as a set: the pattern has one capturing
\* group, so findall gives, per match, the text of the group's last
\* repetition ("(...)" at the end of the match), or "" when it did not repeat
LastGroup(text, e) ==
    IF At(text, e - 1) = ")"
    THEN Slice(text, e - 2 - SpanBack(text, e - 1, AlnumAZ), e)
    ELSE ""

LastGroups(text, spans) == {LastGroup(text, spans[n][2]) : n \in 1..Len(spans)}

SectionNumGroups(text) == LastGroups(text, MatchSpans(_SECTION_NUM_RE, text))

\* re.findall(r"\d+", text): the digit runs, in order
DigitRuns(text) == re_findall(<<Chars(Digits, 1, Unbounded)>>, text)

\* pdf_nums != html_nums and (pdf_nums or html_nums)
NumsDiffer(pdf_nums, html_nums) ==
    pdf_nums # html_nums /\ (pdf_nums # {} \/ html_nums # {})

_has_changed_numbers(pdf, html) ==
    IF NumsDiffer(SectionNumGroups(pdf), SectionNumGroups(html)) THEN TRUE
    ELSE DigitRuns(pdf) # DigitRuns(html)

\* _is_substantial_text_change with ratio <= 0.5
substantial_at_half(pdf, html) ==
    IF Len(pdf) = 0 \/ Len(html) = 0 THEN TRUE
    ELSE 2 * Min(Len(pdf), Len(html)) <= Max(Len(pdf), Len(html))

\* min / max < 0.5 on lengths
_is_substantial_text_change(pdf, html) ==
    IF Len(pdf) = 0 \/ Len(html) = 0 THEN TRUE
    ELSE 2 * Min(Len(pdf), Len(html)) < Max(Len(pdf), Len(html))

_is_toc(text) == re_search(_TOC_PATTERN_RE, text) \/ re_search(_TOC_STRIPPED_RE, text)

\* an "or" that always gives its second operand
second_operand(x, y) == y

\* x or y
StrOr(x, y) == IF x # "" THEN x ELSE y

\* Rule 4a, first branch: PDF table of contents content not in HTML
TocInPdfOnly(pdf, html, pdf_d, html_d) ==
    strip(StrOr(html_d, html)) = "" /\ _is_toc(StrOr(pdf_d, pdf))

\* Rule 4a, second branch: HTML table of contents content not in PDF
TocInHtmlOnly(pdf, html, pdf_d, html_d) ==
    strip(StrOr(pdf_d, pdf)) = "" /\ _is_toc(StrOr(html_d, html))

\* Rule 4b: a raw diff that is only a section number delimiter
IsSectionDelimiter(pdf_d, html_d) ==
    LET pd == IF pdf_d # "" THEN strip(pdf_d) ELSE ""
        hd == IF html_d # "" THEN strip(html_d) ELSE ""
    IN \/ pd # "" /\ re_match(_SECTION_DELIM_RE, pd)
       \/ hd # "" /\ re_match(_SECTION_DELIM_RE, hd)

\* classify_discrepancy with the changed-numbers rule tested before the
\* section-delimiter rule
classify_numbers_before_delimiter(pdf, html, chapter, location, desc, pdf_d, html_d) ==
    LET D(severity, wording) ==
            Discrepancy(severity, chapter, location, pdf, html, StrOr(desc, wording))
    IN IF _is_whitespace_only_diff(pdf, html)
       THEN D(LOW, "Whitespace/hyphenation difference only")
       ELSE IF _is_pdf_header_footer(pdf) \/ _is_pdf_header_footer(html)
       THEN D(LOW, "PDF header/footer artifact")
       ELSE IF _is_case_only_diff(pdf, html)
       THEN D(LOW, "Case-only difference (e.g. NO. " \o U_2192 \o " No.)")
       ELSE IF _is_punctuation_only(pdf, html)
       THEN D(MEDIUM, "Punctuation difference")
       ELSE IF TocInPdfOnly(pdf, html, pdf_d, html_d)
       THEN D(LOW, "PDF table of contents content not in HTML")
       ELSE IF TocInHtmlOnly(pdf, html, pdf_d, html_d)
       THEN D(LOW, "HTML table of contents content not in PDF")
       ELSE IF _has_changed_numbers(pdf, html)
       THEN D(HIGH, "Changed section number or numeric reference")
       ELSE IF IsSectionDelimiter(pdf_d, html_d)
       THEN D(MEDIUM, "Section number delimiter difference")
       ELSE IF _is_substantial_text_change(pdf, html)
       THEN D(HIGH, "Substantial text addition or deletion")
       ELSE D(MEDIUM, "Text difference")

classify_discrepancy(pdf, html, chapter, location, desc, pdf_d, html_d) ==
    LET D(severity, wording) ==
            Discrepancy(severity, chapter, location, pdf, html, StrOr(desc, wording))
    IN IF _is_whitespace_only_diff(pdf, html)
       THEN D(LOW, "Whitespace/hyphenation difference only")
       ELSE IF _is_pdf_header_footer(pdf) \/ _is_pdf_header_footer(html)
       THEN D(LOW, "PDF header/footer artifact")
       ELSE IF _is_case_only_diff(pdf, html)
       THEN D(LOW, "Case-only difference (e.g. NO. " \o U_2192 \o " No.)")
       ELSE IF _is_punctuation_only(pdf, html)
       THEN D(MEDIUM, "Punctuation difference")
       ELSE IF TocInPdfOnly(pdf, html, pdf_d, html_d)
       THEN D(LOW, "PDF table of contents content not in HTML")
       ELSE IF TocInHtmlOnly(pdf, html, pdf_d, html_d)
       THEN D(LOW, "HTML table of contents content not in PDF")
       ELSE IF IsSectionDelimiter(pdf_d, html_d)
       THEN D(MEDIUM, "Section number delimiter difference")
       ELSE IF _has_changed_numbers(pdf, html)
       THEN D(HIGH, "Changed section number or numeric reference")
       ELSE IF _is_substantial_text_change(pdf, html)
       THEN D(HIGH, "Substantial text addition or deletion")
       ELSE D(MEDIUM, "Text difference")

\* HeaderDenominators without the len(words) > 0 guard before the division
HeaderDenominatorsUnguarded(text) == {Cardinality(WordSet(lower(text)))}

\* the denominators of the divisions a call of _is_pdf_header_footer evaluates
\* (len(words) > 0 and len(words & _PDF_HEADER_WORDS) / len(words) > 0.5)
HeaderDenominators(text) ==
    LET n == Cardinality(WordSet(lower(text)))
    IN IF n > 0 THEN {n} ELSE {}

\* the denominators of the divisions a call of _is_substantial_text_change evaluates
SubstantialDenominators(pdf, html) ==
    IF Len(pdf) = 0 \/ Len(html) = 0 THEN {}
    ELSE {Max(Len(pdf), Len(html))}

\* the denominators of the divisions a call of classify_discrepancy evaluates
ClassifyDenominators(pdf, html, pdf_d, html_d) ==
    IF _is_whitespace_only_diff(pdf, html) THEN {}
    ELSE HeaderDenominators(pdf)
         \cup (IF _is_pdf_header_footer(pdf) THEN {} ELSE HeaderDenominators(html))
         \cup (IF \/ _is_pdf_header_footer(pdf) \/ _is_pdf_header_footer(html)
                  \/ _is_case_only_diff(pdf, html)
                  \/ _is_punctuation_only(pdf, html)
                  \/ TocInPdfOnly(pdf, html, pdf_d, html_d)
                  \/ TocInHtmlOnly(pdf, html, pdf_d, html_d)
                  \/ IsSectionDelimiter(pdf_d, html_d)
                  \/ _has_changed_numbers(pdf, html)
               THEN {}
               ELSE SubstantialDenominators(pdf, html))

\* an exception that leaves the call
Raised(name) == [exception |-> name]

IsRaised(r) == DOMAIN r = {"exception"}

\* a call of classify_discrepancy: the Discrepancy, or ZeroDivisionError
ClassifyCall(pdf, html, chapter, location, desc, pdf_d, html_d) ==
    IF 0 \in ClassifyDenominators(pdf, html, pdf_d, html_d)
    THEN Raised("ZeroDivisionError")
    ELSE classify_discrepancy(pdf, html, chapter, location, desc, pdf_d, html_d)

-----------------------------------------------------------------------------
(* difflib.SequenceMatcher(None, a, b, autojunk=False): no junk, so a       *)
(* longest match is a longest common substring of the two ranges.           *)

\* the length of the common prefix of a[i:ahi] and b[j:bhi]
CommonLen(a, b, i, j, ahi, bhi) ==
    LET most == Min(ahi - i, bhi - j)
    IN IF \A n \in 0..(most - 1) : At(a, i + n) = At(b, j + n) THEN Max(most, 0)
       ELSE CHOOSE n \in 0..(most - 1) :
               /\ At(a, i + n) # At(b, j + n)
               /\ \A m \in 0..(n - 1) : At(a, i + m) = At(b, j + m)

\* find_longest_match(alo, ahi, blo, bhi): <<i, j, k>> with k maximal, and
\* among those the block that starts earliest in a, and of those earliest in
\* b; <<alo, blo, 0>> when nothing matches
find_longest_match(a, b, alo, ahi, blo, bhi) ==
    LET blocks == {<<i, j, CommonLen(a, b, i, j, ahi, bhi)>> :
                       i \in alo..(ahi - 1), j \in blo..(bhi - 1)}
        longest == {m \in blocks : \A n \in blocks : n[3] <= m[3]}
        first == CHOOSE m \in longest :
                    \A n \in longest : m[1] < n[1] \/ (m[1] = n[1] /\ m[2] <= n[2])
    IN IF blocks = {} \/ first[3] = 0 THEN <<alo, blo, 0>> ELSE first

\* the matching blocks of the two ranges, sorted: the longest match, and
\* the blocks to its left and to its right
RECURSIVE MatchingBlocks(_, _, _, _, _, _)
MatchingBlocks(a, b, alo, ahi, blo, bhi) ==
    LET m == find_longest_match(a, b, alo, ahi, blo, bhi)
        i == m[1]
        j == m[2]
        k == m[3]
    IN IF k = 0 THEN <<>>
       ELSE (IF alo < i /\ blo < j THEN MatchingBlocks(a, b, alo, i, blo, j) ELSE <<>>)
            \o <<m>>
            \o (IF i + k < ahi /\ j + k < bhi
                THEN MatchingBlocks(a, b, i + k, ahi, j + k, bhi) ELSE <<>>)

\* adjacent blocks collapsed into one
RECURSIVE CollapseAdjacent(_, _, _)
CollapseAdjacent(blocks, n, cur) ==
    IF n > Len(blocks) THEN (IF cur[3] > 0 THEN <<cur>> ELSE <<>>)
    ELSE LET nxt == blocks[n]
         IN IF cur[1] + cur[3] = nxt[1] /\ cur[2] + cur[3] = nxt[2]
            THEN CollapseAdjacent(blocks, n + 1, <<cur[1], cur[2], cur[3] + nxt[3]>>)
            ELSE (IF cur[3] > 0 THEN <<cur>> ELSE <<>>)
                 \o CollapseAdjacent(blocks, n + 1, nxt)

\* get_matching_blocks(): with the sentinel <<len(a), len(b), 0>>
get_matching_blocks(a, b) ==
    CollapseAdjacent(MatchingBlocks(a, b, 0, Len(a), 0, Len(b)), 1, <<0, 0, 0>>)
    \o <<(<<Len(a), Len(b), 0>>)>>

Opcode(tag, i1, i2, j1, j2) == [tag |-> tag, i1 |-> i1, i2 |-> i2, j1 |-> j1, j2 |-> j2]

RECURSIVE OpcodesFrom(_, _, _, _)
OpcodesFrom(blocks, n, i, j) ==
    IF n > Len(blocks) THEN <<>>
    ELSE LET ai == blocks[n][1]
             bj == blocks[n][2]
             size == blocks[n][3]
             tag == IF i < ai /\ j < bj THEN "replace"
                    ELSE IF i < ai THEN "delete"
                    ELSE IF j < bj THEN "insert"
                    ELSE ""
         IN (IF tag # "" THEN <<Opcode(tag, i, ai, j, bj)>> ELSE <<>>)
            \o (IF size > 0 THEN <<Opcode("equal", ai, ai + size, bj, bj + size)>> ELSE <<>>)
            \o OpcodesFrom(blocks, n + 1, ai + size, bj + size)

\* get_opcodes()
get_opcodes(a, b) == OpcodesFrom(get_matching_blocks(a, b), 1, 0, 0)

-----------------------------------------------------------------------------
(* algorithmic_checker.py *)

\* \b(\d{3,4}(?:\.\d+)?(?:\([A-Za-z0-9]+\))*)\b
section_re ==
    <<WordBoundary, Chars(Digits, 3, 4), OptDecimal,
      Group(<<Lit("("), Chars(AlnumAZ, 1, Unbounded), Lit(")")>>, 0, Unbounded),
      WordBoundary>>

_find_nearby_section(text, position) ==
    LET prefix == Slice(text, 0, Min(position, Len(text)))
        matches == MatchSpans(section_re, prefix)
    IN IF Len(matches) > 0
       THEN Slice(prefix, matches[Len(matches)][1], matches[Len(matches)][2])
       ELSE "unknown"

\* _strip_whitespace that strips nothing
strip_nothing(text) ==
    [stripped |-> text, index_map |-> [n \in 1..Len(text) |-> n - 1]]

\* the stripped text, and for each of its positions the position in text
_strip_whitespace(text) ==
    [stripped |-> JoinStr([n \in 1..Len(text) |->
                              IF At(text, n - 1) \in Whitespace THEN "" ELSE At(text, n - 1)]),
     index_map |-> SelectSeq([n \in 1..Len(text) |-> n - 1],
                             LAMBDA i : At(text, i) \notin Whitespace)]

\* context: int = 40
ContextChars == 40

\* _get_context with a context of fifty characters
get_context_of_fifty(text, start, end) ==
    LET ctx_start == Max(0, start - 50)
        ctx_end == Min(Len(text), end + 50)
        snippet == Slice(text, ctx_start, ctx_end)
    IN strip(re_sub_space(WhitespaceRun, snippet))

_get_context(text, start, end) ==
    LET ctx_start == Max(0, start - ContextChars)
        ctx_end == Min(Len(text), end + ContextChars)
        snippet == Slice(text, ctx_start, ctx_end)
    IN strip(re_sub_space(WhitespaceRun, snippet))

\* a threshold of two characters
MinDiffSizeTwo == 1 + 1

_MIN_DIFF_SIZE == 1

\* list[i]: whether Python raises IndexError
IndexRaises(list, i) == i >= Len(list) \/ i < 0 - Len(list)

\* list[i], negative i counting from the end
ListGet(list, i) == IF i >= 0 THEN list[i + 1] ELSE list[Len(list) + i + 1]

\* the mapping of a stripped range [lo, hi) to the text, done unguarded
MapRangeUnguarded(index_map, text_len, lo, hi) ==
    LET last == Min(hi - 1, Len(index_map) - 1)
        raised == (lo < Len(index_map) /\ IndexRaises(index_map, lo))
                  \/ IndexRaises(index_map, last)
    IN [mapped |-> TRUE,
        raised |-> raised,
        start |-> IF raised THEN None
                  ELSE IF lo < Len(index_map) THEN ListGet(index_map, lo) ELSE text_len,
        end |-> IF raised THEN None ELSE ListGet(index_map, last) + 1]

\* "Map back to original positions": the original range of the stripped
\* range [lo, hi), when lo < len(map) and hi > 0
MapRange(index_map, text_len, lo, hi) ==
    IF lo < Len(index_map) /\ hi > 0
    THEN LET last == Min(hi - 1, Len(index_map) - 1)
             raised == (lo < Len(index_map) /\ IndexRaises(index_map, lo))
                       \/ IndexRaises(index_map, last)
         IN [mapped |-> TRUE,
             raised |-> raised,
             start |-> IF raised THEN None
                       ELSE IF lo < Len(index_map) THEN ListGet(index_map, lo) ELSE text_len,
             end |-> IF raised THEN None ELSE ListGet(index_map, last) + 1]
    ELSE [mapped |-> FALSE, raised |-> FALSE, start |-> None, end |-> None]

\* desc, by the kind of the operation
DescribeOp(tag, pdf_chars, html_chars) ==
    IF tag = "replace"
    THEN "Text differs: '" \o Slice(pdf_chars, 0, 50) \o "' " \o U_2192 \o " '"
         \o Slice(html_chars, 0, 50) \o "'"
    ELSE IF tag = "delete"
    THEN "Text in PDF missing from HTML: '" \o Slice(pdf_chars, 0, 80) \o "'"
    ELSE IF tag = "insert"
    THEN "Text in HTML not in PDF: '" \o Slice(html_chars, 0, 80) \o "'"
    ELSE "Unexpected operation: " \o tag

\* whether the loop body skips the operation
SkipsOp(op) ==
    \/ op.tag = "equal"
    \/ Max(op.i2 - op.i1, op.j2 - op.j1) < _MIN_DIFF_SIZE

\* list.insert(0, x)
prepend(list, x) == <<x>> \o list

\* list.append(x)
append(list, x) == Append(list, x)

\* the items put before those of the list
extend_front(list, items) == items \o list

\* list.extend(items)
extend(list, items) == list \o items

\* the body of the loop over get_opcodes() for an operation it does not
\* skip: the two mapped ranges, and the Discrepancy or the exception
LoopBody(chapter_id, pdf, html, ps, hs, op) ==
    LET pr == MapRange(ps.index_map, Len(pdf), op.i1, op.i2)
        hr == MapRange(hs.index_map, Len(html), op.j1, op.j2)
        pdf_snip == IF pr.mapped THEN _get_context(pdf, pr.start, pr.end) ELSE ""
        location == IF pr.mapped THEN _find_nearby_section(pdf, pr.start) ELSE "unknown"
        html_snip == IF hr.mapped THEN _get_context(html, hr.start, hr.end) ELSE ""
        pdf_chars == Slice(ps.stripped, op.i1, op.i2)
        html_chars == Slice(hs.stripped, op.j1, op.j2)
        desc == DescribeOp(op.tag, pdf_chars, html_chars)
    IN [pdf_range |-> pr, html_range |-> hr,
        outcome |-> IF pr.raised \/ hr.raised THEN Raised("IndexError")
                    ELSE ClassifyCall(pdf_snip, html_snip, chapter_id, location, desc,
                                      pdf_chars, html_chars)]

-----------------------------------------------------------------------------
(* The classifier on its own: any snippets and raw diffs, one call *)

MaxSnippetTokens == 1

SnippetVocab == {"a", "A", ".", "1", " "}

\* the snippets of the documented scenarios, and one per rule
ScenarioSnippets ==
    {"of the", "ofthe", "NO. 5", "No. 5", "see 512.3(A)", "see 512.4(A)",
     "registration may be refused.", "Copyright Office practices",
     "Chapter 200 : 3 01/28/2021", "201 What 202 Purposes 203 Who ",
     "1 2", "2 1", "1.1(a)(b)", "1.1(c)(b)", "ab"}

Snippets == Texts(SnippetVocab, MaxSnippetTokens) \cup ScenarioSnippets

\* <<pdf_diff, html_diff>>: no raw diff, a replacement, a section delimiter
\* on either side, table-of-contents text on either side
RawDiffs ==
    {<<"", "">>, <<"a", "b">>, <<".202", "">>, <<"a", "204.3.">>,
     <<"201What202Purposes203Who", "">>, <<"", "201What202Purposes203Who">>}

Descriptions == {"", "Text differs: 'a' " \o U_2192 \o " 'b'"}

ClassifyIdle ==
    /\ pdf_snippet = Idle
    /\ html_snippet = Idle
    /\ description = Idle
    /\ pdf_diff = Idle
    /\ html_diff = Idle
    /\ result = Idle

NormalizeIdle ==
    /\ raw_text = Idle
    /\ remove_pdf_artifacts = Idle
    /\ normalized = Idle
    /\ renormalized = Idle

CompareIdle ==
    /\ raw_pdf = Idle
    /\ raw_html = Idle
    /\ pdf_text = Idle
    /\ html_text = Idle
    /\ pdf_stripped = Idle
    /\ pdf_map = Idle
    /\ html_stripped = Idle
    /\ html_map = Idle
    /\ opcodes = Idle
    /\ op_idx = Idle
    /\ pdf_orig = Idle
    /\ html_orig = Idle
    /\ discrepancies = Idle
    /\ exception = Idle

ReportIdle ==
    /\ results = Idle
    /\ severity_filter = Idle
    /\ console_report = Idle
    /\ markdown_report = Idle
    /\ json_report = Idle

BatchIdle ==
    /\ caller = Idle
    /\ chapters = Idle
    /\ files = Idle
    /\ mode = Idle
    /\ output_format = Idle
    /\ report_path = Idle
    /\ commit = Idle
    /\ report_file = Idle
    /\ skip_chapters = Idle
    /\ idx = Idle
    /\ calls = Idle
    /\ completed_count = Idle
    /\ llm_results = Idle
    /\ exit_code = Idle

WorkersIdle ==
    /\ requests = Idle
    /\ workers = Idle
    /\ disk = Idle

\* the variables of split_pdf_into_chunks where no call of it runs
ChunksIdle ==
    /\ total_pages = Idle
    /\ chunk_size = Idle
    /\ overlap = Idle
    /\ io_error_at = Idle
    /\ current_page = Idle
    /\ chunk_index = Idle
    /\ chunk_pages = Idle
    /\ split_exit = Idle

\* the variables of make_api_call_with_retry where no call of it runs
RetryIdle ==
    /\ retries = Idle
    /\ attempts = Idle
    /\ sleeps = Idle
    /\ api_exit = Idle

InitClassify ==
    /\ pc = "classify"
    /\ RetryIdle
    /\ ChunksIdle
    /\ WorkersIdle
    /\ NormalizeIdle
    /\ CompareIdle
    /\ ReportIdle
    /\ BatchIdle
    /\ pdf_snippet \in Snippets
    /\ html_snippet \in Snippets
    /\ description \in Descriptions
    /\ \E d \in RawDiffs : pdf_diff = d[1] /\ html_diff = d[2]
    /\ result = None

Classify ==
    /\ pc = "classify"
    /\ result' = ClassifyCall(pdf_snippet, html_snippet, "ch200", "201", description,
                              pdf_diff, html_diff)
    /\ pc' = "classified"
    /\ UNCHANGED <<pdf_snippet, html_snippet, description, pdf_diff, html_diff>>
    /\ UNCHANGED <<normalize_vars, compare_vars, report_vars, batch_vars, worker_vars, chunk_vars, retry_vars>>

NextClassify == Classify

SpecClassify == InitClassify /\ [][NextClassify]_vars

\* the predicate of rule n on the arguments of the call
Rule(n) ==
    CASE n = 1 -> _is_whitespace_only_diff(pdf_snippet, html_snippet)
      [] n = 2 -> _is_pdf_header_footer(pdf_snippet) \/ _is_pdf_header_footer(html_snippet)
      [] n = 3 -> _is_case_only_diff(pdf_snippet, html_snippet)
      [] n = 4 -> _is_punctuation_only(pdf_snippet, html_snippet)
      [] n = 5 -> \/ TocInPdfOnly(pdf_snippet, html_snippet, pdf_diff, html_diff)
                  \/ TocInHtmlOnly(pdf_snippet, html_snippet, pdf_diff, html_diff)
      [] n = 6 -> IsSectionDelimiter(pdf_diff, html_diff)
      [] n = 7 -> _has_changed_numbers(pdf_snippet, html_snippet)
      [] n = 8 -> _is_substantial_text_change(pdf_snippet, html_snippet)
      [] n = 9 -> TRUE

\* the first rule, in the order of the list, whose predicate holds
FirstRule ==
    IF Rule(1) THEN 1 ELSE IF Rule(2) THEN 2 ELSE IF Rule(3) THEN 3
    ELSE IF Rule(4) THEN 4 ELSE IF Rule(5) THEN 5 ELSE IF Rule(6) THEN 6
    ELSE IF Rule(7) THEN 7 ELSE IF Rule(8) THEN 8 ELSE 9

RuleSeverity == <<LOW, LOW, LOW, MEDIUM, LOW, MEDIUM, HIGH, HIGH, MEDIUM>>

IsDiscrepancy(r) ==
    DOMAIN r = {"severity", "chapter", "location", "pdf_text", "html_text",
                "description", "source"}

\* C1: the severity returned is the one of the first rule, in the order
\* whitespace, header/footer, case, punctuation, table of contents, section
\* delimiter, changed numbers, length imbalance, default, whose predicate
\* holds, whatever later predicates hold too.
C1_FirstMatchingRuleWins ==
    pc = "classified" =>
        IsDiscrepancy(result) /\ result.severity = RuleSeverity[FirstRule]

\* a section delimiter (rule 6, MEDIUM) whose snippets also differ in their
\* numbers (rule 7, HIGH)
C1_Witness ==
    /\ pc = "classified"
    /\ FirstRule = 6
    /\ Rule(7)
    /\ result.severity = MEDIUM

\* C2: every call returns one Discrepancy with a severity of LOW, MEDIUM or
\* HIGH, never an exception, and MEDIUM when none of rules 1-8 holds.
C2_ClassificationTotal ==
    pc = "classified" =>
        /\ IsDiscrepancy(result)
        /\ result.severity \in Severity
        /\ (\A n \in 1..8 : ~Rule(n)) => result.severity = MEDIUM

\* the default rule decided, and an empty snippet was classified
C2_Witness ==
    /\ pc = "classified"
    /\ \A n \in 1..8 : ~Rule(n)
    /\ IsDiscrepancy(result)
    /\ result.severity = MEDIUM

\* the fixed wording of each rule; rule 5 has one per side
RuleWordings ==
    <<"Whitespace/hyphenation difference only",
      "PDF header/footer artifact",
      "Case-only difference (e.g. NO. " \o U_2192 \o " No.)",
      "Punctuation difference",
      "PDF table of contents content not in HTML",
      "Section number delimiter difference",
      "Changed section number or numeric reference",
      "Substantial text addition or deletion",
      "Text difference">>

WordingOf(n) ==
    IF n = 5 /\ ~TocInPdfOnly(pdf_snippet, html_snippet, pdf_diff, html_diff)
    THEN "HTML table of contents content not in PDF"
    ELSE RuleWordings[n]

\* the fixed wording of the rule that decided the call
RuleWording == WordingOf(FirstRule)

\* C13: whichever rule decides, a non-empty description of the caller is
\* the description of the Discrepancy, and the rule's own wording is used
\* only for an empty one; chapter, location and the two snippets are copied
\* unchanged into chapter, location, pdf_text and html_text.
C13_DescriptionVerbatim ==
    pc = "classified" =>
        /\ IsDiscrepancy(result)
        /\ result.description = (IF description # "" THEN description ELSE RuleWording)
        /\ result.chapter = "ch200"
        /\ result.location = "201"
        /\ result.pdf_text = pdf_snippet
        /\ result.html_text = html_snippet

\* a caller's description kept by a rule with a wording of its own
C13_Witness ==
    /\ pc = "classified"
    /\ description # ""
    /\ FirstRule = 7
    /\ result.description = description
    /\ result.description # RuleWording

\* the section-number-shaped substrings of text, as a set
SectionNumTexts(text) == Range(re_findall(_SECTION_NUM_RE, text))

\* the digit runs of text, as a set
DigitRunSet(text) == Range(DigitRuns(text))

\* the two snippets differ in the set of their section-number-shaped
\* substrings or in the set of their digit runs
NumberSetsDiffer ==
    \/ SectionNumTexts(pdf_snippet) # SectionNumTexts(html_snippet)
    \/ DigitRunSet(pdf_snippet) # DigitRunSet(html_snippet)

\* C14: when none of rules 1-6 holds, the call is decided by the
\* changed-numbers rule, with HIGH, exactly when the sets of
\* section-number-shaped substrings of the two snippets differ or the sets
\* of their digit runs differ; the same digit runs in another order or
\* number do not make the rule hold.
C14_ChangedNumberSets ==
    (pc = "classified" /\ FirstRule >= 7) =>
        /\ (FirstRule = 7) <=> NumberSetsDiffer
        /\ FirstRule = 7 => result.severity = HIGH

\* the raw diff of one side is empty and that of the other side has the
\* table-of-contents shape
TocRawDiff ==
    \/ html_diff = "" /\ pdf_diff # "" /\ _is_toc(pdf_diff)
    \/ pdf_diff = "" /\ html_diff # "" /\ _is_toc(html_diff)

\* C15: when none of rules 1-4 holds, the raw diff of one side is empty and
\* the raw diff of the other side has the table-of-contents shape, the call
\* returns LOW, whether the context snippet of the empty side is empty or
\* not.
C15_TocJudgedOnRawDiff ==
    (pc = "classified" /\ FirstRule >= 5 /\ TocRawDiff) => result.severity = LOW

\* text from offset i on is a 3-4 digit number, an optional decimal part
\* and an optional period, and nothing more
NumberThenPeriod(text, i) ==
    LET digits == SpanIn(text, i, Digits)
        after == i + digits
        decimals == IF after < Len(text) /\ At(text, after) = "."
                    THEN SpanIn(text, after + 1, Digits) ELSE 0
        rest == IF decimals > 0 THEN after + 1 + decimals ELSE after
    IN /\ digits \in {3, 4}
       /\ \/ rest = Len(text)
          \/ rest = Len(text) - 1 /\ At(text, rest) = "."

\* text, trimmed, is only an optional leading period, a 3-4 digit number
\* with an optional decimal part, and an optional trailing period
IsBareDelimiter(text) ==
    LET t == strip(text)
    IN /\ t # ""
       /\ NumberThenPeriod(t, IF At(t, 0) = "." THEN 1 ELSE 0)

\* C16: when none of rules 1-5 holds and the trimmed raw diff of either
\* side is a bare section-number delimiter, the section-delimiter rule
\* decides and the call returns MEDIUM, also when the changed-numbers or
\* the length-imbalance predicate holds; with both raw diffs empty the rule
\* never decides.
C16_SectionDelimiter ==
    pc = "classified" =>
        /\ (FirstRule >= 6 /\ (IsBareDelimiter(pdf_diff) \/ IsBareDelimiter(html_diff)))
               => (FirstRule = 6 /\ result.severity = MEDIUM)
        /\ (pdf_diff = "" /\ html_diff = "") => FirstRule # 6

\* a delimiter with a trailing period on the HTML side, between snippets
\* of imbalanced lengths
C16_Witness ==
    /\ pc = "classified"
    /\ IsBareDelimiter(html_diff)
    /\ ~IsBareDelimiter(pdf_diff)
    /\ FirstRule = 6
    /\ Rule(8)
    /\ result.severity = MEDIUM

\* C17: when none of rules 1-7 holds, the call returns HIGH if a snippet is
\* empty or the shorter snippet is less than half as long as the longer,
\* and the default MEDIUM otherwise, a ratio of exactly 0.5 included.
C17_LengthImbalance ==
    (pc = "classified" /\ FirstRule >= 8) =>
        LET short == Min(Len(pdf_snippet), Len(html_snippet))
            long == Max(Len(pdf_snippet), Len(html_snippet))
        IN IF short = 0 \/ 2 * short < long
           THEN result.severity = HIGH /\ FirstRule = 8
           ELSE result.severity = MEDIUM /\ FirstRule = 9

\* a ratio of exactly 0.5, decided by the default rule
C17_Witness ==
    /\ pc = "classified"
    /\ FirstRule = 9
    /\ Len(pdf_snippet) > 0
    /\ 2 * Len(pdf_snippet) = Len(html_snippet)
    /\ result.severity = MEDIUM

\* C26: the call returns HIGH only if the snippets differ after the removal
\* of all whitespace, neither snippet is header or footer content, the
\* snippets differ when case is ignored, they are not a punctuation-only
\* pair, neither table-of-contents shape holds and neither raw diff is a
\* bare section delimiter; a pair with a header-vocabulary snippet is LOW,
\* also when its digit runs differ or one side is empty.
C26_HighOnlyAfterBenignRules ==
    pc = "classified" =>
        /\ result.severity = HIGH =>
              /\ ~_is_whitespace_only_diff(pdf_snippet, html_snippet)
              /\ ~_is_pdf_header_footer(pdf_snippet)
              /\ ~_is_pdf_header_footer(html_snippet)
              /\ ~_is_case_only_diff(pdf_snippet, html_snippet)
              /\ ~_is_punctuation_only(pdf_snippet, html_snippet)
              /\ ~TocInPdfOnly(pdf_snippet, html_snippet, pdf_diff, html_diff)
              /\ ~TocInHtmlOnly(pdf_snippet, html_snippet, pdf_diff, html_diff)
              /\ ~IsSectionDelimiter(pdf_diff, html_diff)
              /\ ~IsBareDelimiter(pdf_diff)
              /\ ~IsBareDelimiter(html_diff)
        /\ (_is_pdf_header_footer(pdf_snippet) \/ _is_pdf_header_footer(html_snippet))
              => result.severity = LOW

\* a HIGH by the changed-numbers rule on a call with raw diffs, none of the
\* six earlier rules holding
C26_Witness ==
    /\ pc = "classified"
    /\ result.severity = HIGH
    /\ FirstRule = 7
    /\ pdf_diff # ""
    /\ html_diff # ""

-----------------------------------------------------------------------------
(* The normalizer on its own: any raw text and flag, normalize_text, then   *)
(* normalize_text again with the flag off                                   *)

MaxRawTokens == 3

RawVocab == {"e", U_0301, U_2022, "<", ">", " ", "\n", "."}

\* raw texts with the artifacts the patterns are written for
ArtifactTexts ==
    {"COMPENDIUM OF U.S. COPYRIGHT OFFICE PRACTICES, Third Edition 201 What",
     "C O M P E N D I U M  O F  U .S. C O P Y R I G H T  O F F I C E  P R A C T I C E S , Third Edition",
     "x COMPENDIUM : Chapter 200 y",
     "see Chapter 200 : 3 01/28/2021 next",
     "What This Chapter Covers ..... 3 201.3 Who May File .... .... ..... 5",
     "Overview of the Registration Process 201 What",
     "pra ctices of the appli cant",
     "<ahref=\"x\">link</a> text",
     "e<b>" \o U_0301,
     "  e \n\t e  ",
     U_201C \o "x" \o U_201D \o U_2014 \o U_2018 \o "y" \o U_2019 \o U_2013 \o U_2026,
     "x" \o U_00A0 \o U_00A0 \o "y" \o U_00AD \o "z"}

RawTexts == Texts(RawVocab, MaxRawTokens) \cup ArtifactTexts

InitNormalize ==
    /\ pc = "normalize"
    /\ RetryIdle
    /\ ChunksIdle
    /\ WorkersIdle
    /\ raw_text \in RawTexts
    /\ remove_pdf_artifacts \in BOOLEAN
    /\ normalized = None
    /\ renormalized = None
    /\ ClassifyIdle
    /\ CompareIdle
    /\ ReportIdle
    /\ BatchIdle

Normalize ==
    /\ pc = "normalize"
    /\ normalized' = normalize_text(raw_text, remove_pdf_artifacts)
    /\ pc' = "normalized"
    /\ UNCHANGED <<raw_text, remove_pdf_artifacts, renormalized>>
    /\ UNCHANGED <<classify_vars, compare_vars, report_vars, batch_vars, worker_vars, chunk_vars, retry_vars>>

Renormalize ==
    /\ pc = "normalized"
    /\ renormalized' = normalize_text(normalized, FALSE)
    /\ pc' = "renormalized"
    /\ UNCHANGED <<raw_text, remove_pdf_artifacts, normalized>>
    /\ UNCHANGED <<classify_vars, compare_vars, report_vars, batch_vars, worker_vars, chunk_vars, retry_vars>>

NextNormalize == Normalize \/ Renormalize

SpecNormalize == InitNormalize /\ [][NextNormalize]_vars

\* C7: a second pass with stripping disabled changes nothing:
\* normalize_text(normalize_text(t, strip), False) = normalize_text(t, strip).
C7_Idempotent == pc = "renormalized" => renormalized = normalized

\* some character of text is in S
HasChar(text, S) == \E i \in 0..(Len(text) - 1) : At(text, i) \in S

\* no leading or trailing whitespace, no whitespace but the space, and no
\* two spaces in a row
WhitespaceCollapsed(text) ==
    /\ \A i \in 0..(Len(text) - 1) : At(text, i) \in Whitespace => At(text, i) = " "
    /\ \A i \in 0..(Len(text) - 2) : ~(At(text, i) = " " /\ At(text, i + 1) = " ")
    /\ Len(text) > 0 => At(text, 0) # " " /\ At(text, Len(text) - 1) # " "

\* C8: the output of normalize_text has no run of two or more whitespace
\* characters, no whitespace character other than a single space, and no
\* leading or trailing whitespace, for either value of the flag.
C8_WhitespaceCollapsed ==
    /\ pc \in {"normalized", "renormalized"} => WhitespaceCollapsed(normalized)
    /\ pc = "renormalized" => WhitespaceCollapsed(renormalized)

\* a raw text with a line break and surrounding blanks, whose output keeps a
\* separating space
C8_Witness ==
    /\ pc = "normalized"
    /\ HasChar(raw_text, {"\n"})
    /\ At(raw_text, 0) = " "
    /\ HasChar(normalized, {" "})

\* '<', one or more characters other than '>', and '>'
HasTag(text) ==
    \E i \in 0..(Len(text) - 1) :
        /\ At(text, i) = "<"
        /\ \E j \in (i + 2)..(Len(text) - 1) :
              /\ At(text, j) = ">"
              /\ \A m \in (i + 1)..(j - 1) : At(text, m) # ">"

\* C9 as stated: the output of normalize_text holds no markup tag, for either
\* value of the flag.
C9_NoTagsEitherFlag == pc = "normalized" => ~HasTag(normalized)

\* C9 as amended: with artifact stripping enabled the output holds no markup
\* tag; removing headers, footers, dot leaders or bullets leaves or creates
\* none.
C9_NoTagsWhenStripping ==
    pc = "normalized" /\ remove_pdf_artifacts = TRUE => ~HasTag(normalized)

\* a raw text with a tag, normalized with stripping enabled, and not to nothing
C9_Witness ==
    /\ pc = "normalized"
    /\ remove_pdf_artifacts = TRUE
    /\ HasTag(raw_text)
    /\ normalized # ""

\* the loop over get_opcodes(): the Discrepancy of every operation that
\* the body does not skip, in the order of the operations
ScanAll(chapter_id, pdf, html, ps, hs, ops) ==
    LET kept == SelectSeq([n \in 1..Len(ops) |-> n], LAMBDA n : ~SkipsOp(ops[n]))
    IN [k \in 1..Len(kept) |-> LoopBody(chapter_id, pdf, html, ps, hs, ops[kept[k]]).outcome]

\* compare_chapter from the two index maps on
CompareStripped(chapter_id, pdf, html, ps, hs) ==
    ScanAll(chapter_id, pdf, html, ps, hs, get_opcodes(ps.stripped, hs.stripped))

-----------------------------------------------------------------------------
(* conftest.py and the high-level API of text_extractor.py *)

\* CHAPTER_MAP, the entries of two of its chapters
CHAPTER_MAP ==
    [ch200 |-> [html |-> "ch200-registration-process-src.html",
                txt |-> "ch200-registration-process.txt"],
     ch300 |-> [html |-> "ch300-copyrightable-authorship-src.html",
                txt |-> "ch300-copyrightable-authorship.txt"]]

\* the files get_chapter_texts tests for existence, in the order of the tests
PathsTested(chapter_id, existing) ==
    IF chapter_id \notin DOMAIN CHAPTER_MAP THEN <<>>
    ELSE IF CHAPTER_MAP[chapter_id].html \notin existing THEN <<CHAPTER_MAP[chapter_id].html>>
    ELSE <<CHAPTER_MAP[chapter_id].html, CHAPTER_MAP[chapter_id].txt>>

\* the exception get_chapter_texts raises, or None
LoadError(chapter_id, existing) ==
    IF chapter_id \notin DOMAIN CHAPTER_MAP THEN "KeyError"
    ELSE IF \E n \in 1..Len(PathsTested(chapter_id, existing)) :
                PathsTested(chapter_id, existing)[n] \notin existing
    THEN "FileNotFoundError"
    ELSE None

\* get_chapter_texts that takes a missing file for an empty one
get_chapter_texts_unchecked(chapter_id, existing, content) ==
    IF chapter_id \notin DOMAIN CHAPTER_MAP
    THEN [raised |-> "KeyError", touched |-> {}, html_text |-> None, pdf_text |-> None]
    ELSE [raised |-> None,
          touched |-> {CHAPTER_MAP[chapter_id].html, CHAPTER_MAP[chapter_id].txt},
          html_text |-> IF CHAPTER_MAP[chapter_id].html \in existing
                        THEN normalize_text(content[CHAPTER_MAP[chapter_id].html], FALSE)
                        ELSE "",
          pdf_text |-> IF CHAPTER_MAP[chapter_id].txt \in existing
                       THEN normalize_text(content[CHAPTER_MAP[chapter_id].txt], TRUE)
                       ELSE ""]

\* get_chapter_texts on a file system where the files named in existing
\* exist, with the text content gives them (for an HTML source, the text
\* of its body): the exception raised, if any, the files whose existence
\* was tested or which were read, and the two normalized texts
get_chapter_texts(chapter_id, existing, content) ==
    IF LoadError(chapter_id, existing) # None
    THEN [raised |-> LoadError(chapter_id, existing),
          touched |-> Range(PathsTested(chapter_id, existing)),
          html_text |-> None, pdf_text |-> None]
    ELSE [raised |-> None,
          touched |-> Range(PathsTested(chapter_id, existing)),
          html_text |-> normalize_text(content[CHAPTER_MAP[chapter_id].html], FALSE),
          pdf_text |-> normalize_text(content[CHAPTER_MAP[chapter_id].txt], TRUE)]

\* compare_chapter once get_chapter_texts has returned or raised
CompareLoaded(chapter_id, texts) ==
    IF texts.raised # None
    THEN [raised |-> texts.raised, touched |-> texts.touched, returned |-> None]
    ELSE [raised |-> None, touched |-> texts.touched,
          returned |-> CompareStripped(chapter_id, texts.pdf_text, texts.html_text,
                                       _strip_whitespace(texts.pdf_text),
                                       _strip_whitespace(texts.html_text))]

\* compare_chapter(chapter_id): the exception that leaves the call or the
\* list it returns, and the files it touched
compare_chapter(chapter_id, existing, content) ==
    CompareLoaded(chapter_id, get_chapter_texts(chapter_id, existing, content))

-----------------------------------------------------------------------------
(* llm_checker.py: from the items of the JSON array of the response on *)

\* str.upper
upper(s) ==
    JoinStr([n \in 1..Len(s) |-> IF At(s, n - 1) \in LowerAZ THEN ToUpper[At(s, n - 1)]
                                 ELSE At(s, n - 1)])

\* dict.get(key, default)
DictGet(item, key, default) == IF key \in DOMAIN item THEN item[key] ELSE default

\* Severity[item.get("severity", "MEDIUM").upper()], MEDIUM on KeyError
ItemSeverity(name) == IF name \in Severity THEN name ELSE MEDIUM

\* the Discrepancy of an item, built without the source argument
ItemDiscrepancyUntagged(item, chapter_id) ==
    Discrepancy(ItemSeverity(upper(DictGet(item, "severity", "MEDIUM"))), chapter_id,
                DictGet(item, "location", "unknown"), DictGet(item, "pdf_text", ""),
                DictGet(item, "html_text", ""), DictGet(item, "description", ""))

\* the Discrepancy _parse_llm_response builds for an item
ItemDiscrepancy(item, chapter_id) ==
    [Discrepancy(ItemSeverity(upper(DictGet(item, "severity", "MEDIUM"))), chapter_id,
                 DictGet(item, "location", "unknown"), DictGet(item, "pdf_text", ""),
                 DictGet(item, "html_text", ""), DictGet(item, "description", ""))
        EXCEPT !.source = "llm"]

\* _parse_llm_response once json.loads has given the items
_parse_llm_response(items, chapter_id) ==
    [n \in 1..Len(items) |-> ItemDiscrepancy(items[n], chapter_id)]

-----------------------------------------------------------------------------
(* compare_chapter, one step of its loop at a time *)

MaxPdfTokens == 3
MaxHtmlTokens == 2

TextVocab == {"a", "b", " "}

\* pairs <<text of the .txt file, text of the HTML body>>
ChapterCorpus ==
    {<<"see 512.3(A) of the", "see 512.4(A) ofthe">>,
     <<"NO. 5 is", "No. 5  is">>,
     <<"201 What 202 Purposes 203 Who text", "text">>,
     <<"", "added text">>,
     <<"removed text", "">>,
     <<"pra ctices x", "practices y">>,
     <<"1 2", "1 3 2">>,
     <<"see 201 text", "see 201 text added">>,
     <<"the register may refuse 201 registration of a claim when the deposit copy is not complete  or is not clear enough",
       "the register may refuse 201 registration of a claim if the deposit copy is not complete or is not clear enough">>,
     <<"\n", " ">>}

ChapterTexts ==
    (Texts(TextVocab, MaxPdfTokens) \X Texts(TextVocab, MaxHtmlTokens)) \cup ChapterCorpus

InitCompare ==
    /\ pc = "compare"
    /\ RetryIdle
    /\ ChunksIdle
    /\ WorkersIdle
    /\ \E t \in ChapterTexts : raw_pdf = t[1] /\ raw_html = t[2]
    /\ pdf_text = None
    /\ html_text = None
    /\ pdf_stripped = None
    /\ pdf_map = None
    /\ html_stripped = None
    /\ html_map = None
    /\ opcodes = None
    /\ op_idx = None
    /\ pdf_orig = <<>>
    /\ html_orig = <<>>
    /\ discrepancies = None
    /\ exception = None
    /\ ClassifyIdle
    /\ NormalizeIdle
    /\ ReportIdle
    /\ BatchIdle

\* get_chapter_texts, the two index maps, the matcher and the empty list
LoadChapter ==
    /\ pc = "compare"
    /\ html_text' = normalize_text(raw_html, FALSE)
    /\ pdf_text' = normalize_text(raw_pdf, TRUE)
    /\ \E ps \in {_strip_whitespace(pdf_text')} :
          pdf_stripped' = ps.stripped /\ pdf_map' = ps.index_map
    /\ \E hs \in {_strip_whitespace(html_text')} :
          html_stripped' = hs.stripped /\ html_map' = hs.index_map
    /\ opcodes' = get_opcodes(pdf_stripped', html_stripped')
    /\ op_idx' = 0
    /\ discrepancies' = <<>>
    /\ pc' = "scan"
    /\ UNCHANGED <<raw_pdf, raw_html, pdf_orig, html_orig, exception>>
    /\ UNCHANGED <<classify_vars, normalize_vars, report_vars, batch_vars, worker_vars, chunk_vars, retry_vars>>

\* pdf_orig_start and pdf_orig_end after the mapping r, which leaves them as
\* they are when it assigns neither
Assigned(r, orig) == IF r.mapped /\ ~r.raised THEN <<r.start, r.end>> ELSE orig

\* one iteration of "for op, i1, i2, j1, j2 in matcher.get_opcodes()"
ScanOp ==
    /\ pc = "scan"
    /\ op_idx < Len(opcodes)
    /\ LET op == opcodes[op_idx + 1]
       IN IF SkipsOp(op)
          THEN /\ op_idx' = op_idx + 1
               /\ UNCHANGED <<pc, pdf_orig, html_orig, discrepancies, exception>>
          ELSE \E body \in {LoopBody("ch200", pdf_text, html_text,
                                     [stripped |-> pdf_stripped, index_map |-> pdf_map],
                                     [stripped |-> html_stripped, index_map |-> html_map],
                                     op)} :
               /\ pdf_orig' = Assigned(body.pdf_range, pdf_orig)
               /\ html_orig' = IF body.pdf_range.raised THEN html_orig
                                ELSE Assigned(body.html_range, html_orig)
               /\ IF IsRaised(body.outcome)
                  THEN /\ exception' = body.outcome.exception
                       /\ pc' = "raised"
                       /\ UNCHANGED <<op_idx, discrepancies>>
                  ELSE /\ discrepancies' = append(discrepancies, body.outcome)
                       /\ op_idx' = op_idx + 1
                       /\ UNCHANGED <<pc, exception>>
    /\ UNCHANGED <<raw_pdf, raw_html, pdf_text, html_text, pdf_stripped, pdf_map,
                   html_stripped, html_map, opcodes>>
    /\ UNCHANGED <<classify_vars, normalize_vars, report_vars, batch_vars, worker_vars, chunk_vars, retry_vars>>

\* return discrepancies
ReturnDiscrepancies ==
    /\ pc = "scan"
    /\ op_idx = Len(opcodes)
    /\ pc' = "returned"
    /\ UNCHANGED <<compare_vars, classify_vars, normalize_vars, report_vars, batch_vars, worker_vars, chunk_vars, retry_vars>>

NextCompare == LoadChapter \/ ScanOp \/ ReturnDiscrepancies

SpecCompare == InitCompare /\ [][NextCompare]_vars

\* an edit operation that is a replace, an insert or a delete of span
\* length at least 1
Qualifies(op) ==
    /\ op.tag \in {"replace", "insert", "delete"}
    /\ Max(op.i2 - op.i1, op.j2 - op.j1) >= 1

\* the qualifying operations among those the loop has been through
QualifyingScanned == SelectSeq(SubSeq(opcodes, 1, op_idx), Qualifies)

Scanning == pc \in {"scan", "returned"}

C4_OrderOfDiscovery ==
    Scanning =>
        \A k \in 1..Len(discrepancies) :
            /\ k <= Len(QualifyingScanned)
            /\ LET op == QualifyingScanned[k]
               IN /\ discrepancies[k].description =
                        DescribeOp(op.tag, Slice(pdf_stripped, op.i1, op.i2),
                                   Slice(html_stripped, op.j1, op.j2))
                  /\ k > 1 => QualifyingScanned[k - 1].i1 <= op.i1

C4_Witness ==
    /\ pc = "returned"
    /\ Len(discrepancies) >= 2
    /\ discrepancies[1].description # discrepancies[2].description
    /\ QualifyingScanned[1].i1 < QualifyingScanned[2].i1

\* C5: when the two normalized texts are equal once their whitespace is
\* deleted, the comparison finds no discrepancy.
C5_WhitespaceInvariance ==
    (Scanning /\ re_sub_empty(WhitespaceRun, pdf_text) = re_sub_empty(WhitespaceRun, html_text))
        => discrepancies = <<>>

C5_Witness ==
    /\ pc = "returned"
    /\ pdf_text # html_text
    /\ re_sub_empty(WhitespaceRun, pdf_text) = re_sub_empty(WhitespaceRun, html_text)
    /\ pdf_stripped # ""
    /\ discrepancies = <<>>

\* where the stripped PDF offset i1 lies in the PDF text: the offset of the
\* character, or the end of the text for an offset after the last character
PdfStart(i1) == IF i1 < Len(pdf_map) THEN pdf_map[i1 + 1] ELSE Len(pdf_text)

\* C18: the location of every Discrepancy is the last section-like numeral
\* of the normalized PDF text before the place of its operation, and
\* 'unknown' only when no numeral precedes that place; for replace, delete
\* and insert alike, an insertion after the last PDF character included.
C18_LocationIsLastNumeral ==
    Scanning =>
        \A k \in 1..Len(discrepancies) :
            discrepancies[k].location =
                _find_nearby_section(pdf_text, PdfStart(QualifyingScanned[k].i1))

\* snippet is the window of 40 characters around [start, end) of text, its
\* whitespace collapsed and its ends trimmed
IsContextOf(snippet, text, start, end, lo, hi) ==
    /\ lo = (IF start - 40 > 0 THEN start - 40 ELSE 0)
    /\ hi = (IF end + 40 < Len(text) THEN end + 40 ELSE Len(text))
    /\ lo <= hi
    /\ snippet = strip(re_sub_space(WhitespaceRun, SubSeq(text, lo + 1, hi)))
    /\ Len(snippet) <= (end - start) + 80

\* the first and last offsets of text that bound the window of [start, end)
WindowOf(text, start, end) == <<Max(0, start - 40), Min(Len(text), end + 40)>>

ContextOfRange(snippet, text, r) ==
    r.mapped => IsContextOf(snippet, text, r.start, r.end,
                            WindowOf(text, r.start, r.end)[1],
                            WindowOf(text, r.start, r.end)[2])

\* the mapped PDF and HTML ranges of the k-th qualifying operation
PdfRangeOf(k) ==
    MapRange(pdf_map, Len(pdf_text), QualifyingScanned[k].i1, QualifyingScanned[k].i2)

HtmlRangeOf(k) ==
    MapRange(html_map, Len(html_text), QualifyingScanned[k].j1, QualifyingScanned[k].j2)

\* C19: the context snippet of a mapped range [start, end) is the slice of
\* the normalized text from max(0, start - 40) to min(len(text), end + 40)
\* with its whitespace runs collapsed to one space and its ends trimmed; it
\* is at most (end - start) + 80 long, and the slice lies inside the text.
C19_ContextWindow ==
    Scanning =>
        \A k \in 1..Len(discrepancies) :
            /\ ContextOfRange(discrepancies[k].pdf_text, pdf_text, PdfRangeOf(k))
            /\ ContextOfRange(discrepancies[k].html_text, html_text, HtmlRangeOf(k))

\* a range more than 40 characters from both ends of either text; the PDF
\* snippet is the whole window, the HTML snippet a window with a blank end
C19_Witness ==
    /\ pc = "returned"
    /\ \E k \in 1..Len(discrepancies) :
          /\ PdfRangeOf(k).mapped
          /\ PdfRangeOf(k).start > 40
          /\ PdfRangeOf(k).end + 40 < Len(pdf_text)
          /\ Len(discrepancies[k].pdf_text) = (PdfRangeOf(k).end - PdfRangeOf(k).start) + 80
          /\ HtmlRangeOf(k).mapped
          /\ HtmlRangeOf(k).start > 40
          /\ HtmlRangeOf(k).end + 40 < Len(html_text)
          /\ Len(discrepancies[k].html_text) < (HtmlRangeOf(k).end - HtmlRangeOf(k).start) + 80

\* the non-empty stripped range [i1, i2) maps to a range [start, end) of the
\* text that starts and ends on a character that is not whitespace and
\* holds, whitespace apart, the characters of the stripped range
RoundTrip(text, stripped, index_map, i1, i2) ==
    \E r \in {MapRange(index_map, Len(text), i1, i2)} :
        /\ r.mapped
        /\ ~r.raised
        /\ r.start < r.end
        /\ At(text, r.start) \notin Whitespace
        /\ At(text, r.end - 1) \notin Whitespace
        /\ re_sub_empty(WhitespaceRun, Slice(text, r.start, r.end)) = Slice(stripped, i1, i2)

\* every non-empty range of the stripped text makes the round trip
EveryRangeRoundTrips(text, stripped, index_map) ==
    \A i1 \in 0..(Len(stripped) - 1) :
        \A i2 \in (i1 + 1)..Len(stripped) :
            RoundTrip(text, stripped, index_map, i1, i2)

StrictlyIncreasing(index_map) ==
    \A n \in 1..(Len(index_map) - 1) : index_map[n] < index_map[n + 1]

\* C27: for every non-empty range [i1, i2) of a stripped text, the range of
\* the original text it is mapped to has start < end, begins and ends on a
\* character that is not whitespace, and gives the stripped range again
\* when its whitespace is deleted; the index map is strictly increasing.
C27_OffsetRoundTrip ==
    Scanning =>
        /\ EveryRangeRoundTrips(pdf_text, pdf_stripped, pdf_map)
        /\ EveryRangeRoundTrips(html_text, html_stripped, html_map)
        /\ StrictlyIncreasing(pdf_map)
        /\ StrictlyIncreasing(html_map)
        /\ Len(pdf_map) = Len(pdf_stripped)
        /\ Len(html_map) = Len(html_stripped)

\* a deleted range of the PDF that spans whitespace of the text: the
\* mapped range is longer than the stripped one
C27_Witness ==
    /\ pc = "returned"
    /\ \E k \in 1..Len(discrepancies) :
          /\ QualifyingScanned[k].i1 < QualifyingScanned[k].i2
          /\ PdfRangeOf(k).mapped
          /\ PdfRangeOf(k).end - PdfRangeOf(k).start
                 > QualifyingScanned[k].i2 - QualifyingScanned[k].i1
          /\ RoundTrip(pdf_text, pdf_stripped, pdf_map,
                       QualifyingScanned[k].i1, QualifyingScanned[k].i2)

\* the stripped range [lo, hi) starts at or beyond the end of the stripped
\* text, or ends at offset 0
OutsideText(stripped, lo, hi) == lo >= Len(stripped) \/ hi = 0

\* the empty stripped range [lo, lo) lies strictly inside the stripped text
EmptyInside(stripped, lo, hi) == lo = hi /\ 0 < lo /\ lo < Len(stripped)

\* the snippet of one side of an operation: "" exactly for a range outside
\* the text, and for an empty range inside the text the context window
SnippetOfSide(snippet, text, stripped, index_map, lo, hi) ==
    /\ snippet = "" <=> OutsideText(stripped, lo, hi)
    /\ EmptyInside(stripped, lo, hi) =>
          \E r \in {MapRange(index_map, Len(text), lo, hi)} :
              /\ r.mapped
              /\ r.end <= r.start
              /\ snippet = _get_context(text, r.start, r.end)
              /\ snippet # ""

\* C28: the snippet of a side is "" (and, for the PDF side, the location
\* 'unknown') exactly when the stripped range of that side starts at or
\* beyond the end of the stripped text or ends at offset 0; for an empty
\* range strictly inside the text the snippet is the non-empty context
\* window of the mapped range, whose start may exceed its end.
C28_EmptySnippetOutsideText ==
    Scanning =>
        \A k \in 1..Len(discrepancies) :
            /\ SnippetOfSide(discrepancies[k].pdf_text, pdf_text, pdf_stripped, pdf_map,
                             QualifyingScanned[k].i1, QualifyingScanned[k].i2)
            /\ SnippetOfSide(discrepancies[k].html_text, html_text, html_stripped, html_map,
                             QualifyingScanned[k].j1, QualifyingScanned[k].j2)
            /\ OutsideText(pdf_stripped, QualifyingScanned[k].i1, QualifyingScanned[k].i2)
                  => discrepancies[k].location = "unknown"

\* an insertion after the last PDF character (snippet "", location
\* 'unknown') on a text that holds a numeral
C28_Witness ==
    /\ pc = "returned"
    /\ \E k \in 1..Len(discrepancies) :
          /\ QualifyingScanned[k].i1 = Len(pdf_stripped)
          /\ Len(pdf_stripped) > 0
          /\ discrepancies[k].pdf_text = ""
          /\ discrepancies[k].location = "unknown"
          /\ discrepancies[k].html_text # ""

\* an insertion between two PDF characters: the mapped start exceeds the
\* mapped end and the snippet is the window around them
C28_InsideWitness ==
    /\ pc = "returned"
    /\ \E k \in 1..Len(discrepancies) :
          /\ EmptyInside(pdf_stripped, QualifyingScanned[k].i1, QualifyingScanned[k].i2)
          /\ PdfRangeOf(k).end < PdfRangeOf(k).start
          /\ discrepancies[k].pdf_text # ""

InBounds(range, text) == \A n \in 1..Len(range) : 0 <= range[n] /\ range[n] <= Len(text)

\* C6: mapping a stripped range back never raises IndexError, and the
\* original start and end offsets it gives, on either side, are within
\* [0, len(text)].
C6_MappedRangeInBounds ==
    /\ exception # "IndexError"
    /\ pc # "raised"
    /\ Scanning =>
          /\ InBounds(pdf_orig, pdf_text)
          /\ InBounds(html_orig, html_text)

\* an empty stripped range of the PDF between two words, mapped back
C6_Witness ==
    /\ Scanning
    /\ pdf_orig # <<>>
    /\ pdf_orig[2] < pdf_orig[1]
    /\ html_orig # <<>>
    /\ html_orig[1] < html_orig[2]

-----------------------------------------------------------------------------
(* report.py *)

\* a severity_order with LOW above MEDIUM
severity_order_swapped == (HIGH :> 3) @@ (MEDIUM :> 1) @@ (LOW :> 2)

\* severity_order = {Severity.HIGH: 3, Severity.MEDIUM: 2, Severity.LOW: 1}
severity_order == (HIGH :> 3) @@ (MEDIUM :> 2) @@ (LOW :> 1)

\* severity_order.get(severity_filter, 0) if severity_filter else 0
filter_level(filter) ==
    IF filter # None
    THEN (IF filter \in DOMAIN severity_order THEN severity_order[filter] ELSE 0)
    ELSE 0

\* [d for d in discrepancies if severity_order[d.severity] >= filter_level]
Filtered(list, filter) ==
    SelectSeq(list, LAMBDA d : severity_order[d.severity] >= filter_level(filter))

\* [d for d in list if d.severity == sev]
OfSeverity(list, sev) == SelectSeq(list, LAMBDA d : d.severity = sev)

\* Counter(d.severity for d in list)
Counter(list) == [sev \in Severity |-> Len(OfSeverity(list, sev))]

\* list.sort(key=lambda d: severity_order[d.severity], reverse=True): stable,
\* and reverse keeps the order of equal keys
RECURSIVE SortBySeverity(_, _)
SortBySeverity(list, level) ==
    IF level = 0 THEN <<>>
    ELSE SelectSeq(list, LAMBDA d : severity_order[d.severity] = level)
         \o SortBySeverity(list, level - 1)

_truncate(text, max_len) ==
    IF Len(text) <= max_len THEN text ELSE Slice(text, 0, max_len - 3) \o "..."

\* .replace("|", "\\|").replace("\n", " ")
EscapeCell(text) == str_replace(str_replace(text, "|", "\\|"), "\n", " ")

_discrepancy_to_md_row(d) ==
    "| " \o d.severity \o " | " \o d.location \o " | "
    \o EscapeCell(_truncate(d.pdf_text, 80)) \o " | "
    \o EscapeCell(_truncate(d.html_text, 80)) \o " | "
    \o EscapeCell(d.description) \o " |"

\* the "first 5" of the HIGH details on the console
HighDetailLimit == 5

\* the lines of one HIGH item on the console
ConsoleDetail(d) ==
    [location |-> d.location, description |-> d.description,
     pdf |-> _truncate(d.pdf_text, 100), html |-> _truncate(d.html_text, 100)]

\* what print_console_report prints for a chapter: the counts by severity
\* (none of them when nothing passes the filter), the first HIGH items and
\* the number of HIGH items not shown
ConsoleChapter(list, filter) ==
    LET high_items == OfSeverity(Filtered(list, filter), HIGH)
        shown == SubSeq(high_items, 1, Min(HighDetailLimit, Len(high_items)))
    IN [no_issues |-> Filtered(list, filter) = <<>>,
        counts |-> Counter(Filtered(list, filter)),
        details |-> [n \in 1..Len(shown) |-> ConsoleDetail(shown[n])],
        more |-> Max(0, Len(high_items) - HighDetailLimit)]

\* the sum of a function of the chapters over a set of them
RECURSIVE SumOver(_, _)
SumOver(f, S) ==
    IF S = {} THEN 0
    ELSE LET c == CHOOSE x \in S : TRUE IN f[c] + SumOver(f, S \ {c})

\* total_counts
TotalCounts(res, filter) ==
    [sev \in Severity |->
        SumOver([c \in DOMAIN res |-> Counter(Filtered(res[c], filter))[sev]], DOMAIN res)]

\* the rows of the table of a chapter of the Markdown report
MarkdownRows(list, filter) ==
    LET sorted == SortBySeverity(Filtered(list, filter), 3)
    IN [n \in 1..Len(sorted) |-> _discrepancy_to_md_row(sorted[n])]

\* the dict written for a Discrepancy in the JSON report
JsonItem(d) ==
    [severity |-> d.severity, location |-> d.location, pdf_text |-> d.pdf_text,
     html_text |-> d.html_text, description |-> d.description, source |-> d.source]

JsonItems(list, filter) ==
    LET kept == Filtered(list, filter)
    IN [n \in 1..Len(kept) |-> JsonItem(kept[n])]

-----------------------------------------------------------------------------
(* The three renderers on the same results *)

MaxDiscs == 2

Chapters == {"ch200", "ch300"}

\* the lists of at most n discrepancies of chapter c, one wording per severity
RECURSIVE DiscLists(_, _)
DiscLists(c, n) ==
    IF n = 0 THEN {<<>>}
    ELSE LET shorter == DiscLists(c, n - 1)
         IN shorter \cup
            {Append(l, Discrepancy(sev, c, "201", "old | text", "new text",
                                   "Text difference"))
                : l \in shorter, sev \in Severity}

InitReport ==
    /\ pc = "report"
    /\ RetryIdle
    /\ ChunksIdle
    /\ WorkersIdle
    /\ results \in [Chapters -> UNION {DiscLists(c, MaxDiscs) : c \in Chapters}]
    /\ \A c \in Chapters : results[c] \in DiscLists(c, MaxDiscs)
    /\ severity_filter \in Severity \cup {None}
    /\ console_report = <<>>
    /\ markdown_report = <<>>
    /\ json_report = <<>>
    /\ ClassifyIdle
    /\ NormalizeIdle
    /\ CompareIdle
    /\ BatchIdle

\* what print_console_report(results, severity_filter) prints
print_console_report(res, filter) ==
    [chapters |-> [c \in DOMAIN res |-> ConsoleChapter(res[c], filter)],
     chapters_checked |-> Cardinality(DOMAIN res),
     chapters_with_issues |->
         Cardinality({c \in DOMAIN res : Filtered(res[c], filter) # <<>>}),
     total_counts |-> TotalCounts(res, filter)]

\* the file generate_markdown_report(results, path, severity_filter) writes
generate_markdown_report(res, filter) ==
    [chapters_checked |-> Cardinality(DOMAIN res),
     total_counts |-> TotalCounts(res, filter),
     chapters |-> [c \in DOMAIN res |->
                      [counts |-> Counter(Filtered(res[c], filter)),
                       rows |-> MarkdownRows(res[c], filter)]]]

\* the file generate_json_report(results, path, severity_filter) writes
generate_json_report(res, filter) == [c \in DOMAIN res |-> JsonItems(res[c], filter)]

PrintConsoleReport ==
    /\ pc = "report"
    /\ console_report = <<>>
    /\ console_report' = <<print_console_report(results, severity_filter)>>
    /\ UNCHANGED <<pc, results, severity_filter, markdown_report, json_report>>
    /\ UNCHANGED <<classify_vars, normalize_vars, compare_vars, batch_vars, worker_vars, chunk_vars, retry_vars>>

GenerateMarkdownReport ==
    /\ pc = "report"
    /\ markdown_report = <<>>
    /\ markdown_report' = <<generate_markdown_report(results, severity_filter)>>
    /\ UNCHANGED <<pc, results, severity_filter, console_report, json_report>>
    /\ UNCHANGED <<classify_vars, normalize_vars, compare_vars, batch_vars, worker_vars, chunk_vars, retry_vars>>

GenerateJsonReport ==
    /\ pc = "report"
    /\ json_report = <<>>
    /\ json_report' = <<generate_json_report(results, severity_filter)>>
    /\ UNCHANGED <<pc, results, severity_filter, console_report, markdown_report>>
    /\ UNCHANGED <<classify_vars, normalize_vars, compare_vars, batch_vars, worker_vars, chunk_vars, retry_vars>>

NextReport == PrintConsoleReport \/ GenerateMarkdownReport \/ GenerateJsonReport

SpecReport == InitReport /\ [][NextReport]_vars

\* LOW < MEDIUM < HIGH
Rank(sev) == CASE sev = LOW -> 1 [] sev = MEDIUM -> 2 [] sev = HIGH -> 3

\* severity sev is at or above the filter of the run; no filter lets all pass
AtOrAbove(sev) == severity_filter = None \/ Rank(sev) >= Rank(severity_filter)

\* the discrepancies of chapter c at or above the filter, in their order
Expected(c) == SelectSeq(results[c], LAMBDA d : AtOrAbove(d.severity))

\* how many times x occurs in the sequence
Occurrences(seq, x) == Cardinality({n \in 1..Len(seq) : seq[n] = x})

\* the two sequences hold the same items the same number of times
SameItems(s, t) ==
    /\ Len(s) = Len(t)
    /\ \A n \in 1..Len(s) : Occurrences(s, s[n]) = Occurrences(t, s[n])

ConsoleExact(c) ==
    LET shown == console_report[1].chapters[c]
        high == SelectSeq(Expected(c), LAMBDA d : d.severity = HIGH)
    IN /\ \A sev \in Severity :
             shown.counts[sev] = Len(SelectSeq(Expected(c), LAMBDA d : d.severity = sev))
       /\ shown.no_issues <=> Expected(c) = <<>>
       /\ Len(shown.details) + shown.more = Len(high)
       /\ \A n \in 1..Len(shown.details) :
             /\ shown.details[n].location = high[n].location
             /\ shown.details[n].description = high[n].description

MarkdownExact(c) ==
    SameItems(markdown_report[1].chapters[c].rows,
              [n \in 1..Len(Expected(c)) |-> _discrepancy_to_md_row(Expected(c)[n])])

JsonExact(c) ==
    /\ Len(json_report[1][c]) = Len(Expected(c))
    /\ \A n \in 1..Len(Expected(c)) :
          \A field \in {"severity", "location", "pdf_text", "html_text", "description"} :
              json_report[1][c][n][field] = Expected(c)[n][field]

\* C10: in the console, Markdown and JSON reports the items of a chapter
\* are exactly its discrepancies whose severity is at or above the filter,
\* LOW < MEDIUM < HIGH, and all of them when there is no filter.
C10_FilterExact ==
    \A c \in Chapters :
        /\ console_report # <<>> => ConsoleExact(c)
        /\ markdown_report # <<>> => MarkdownExact(c)
        /\ json_report # <<>> => JsonExact(c)

\* a MEDIUM filter over a chapter with a LOW item before a HIGH one and a
\* chapter with a MEDIUM item, all three reports made
C10_Witness ==
    /\ severity_filter = MEDIUM
    /\ console_report # <<>>
    /\ markdown_report # <<>>
    /\ json_report # <<>>
    /\ Len(results["ch200"]) = 2
    /\ results["ch200"][1].severity = LOW
    /\ results["ch200"][2].severity = HIGH
    /\ Len(json_report[1]["ch200"]) = 1
    /\ \E n \in 1..Len(results["ch300"]) : results["ch300"][n].severity = MEDIUM

-----------------------------------------------------------------------------
(* run_qa.py: the incremental report, block by block (the header, one block *)
(* for each "## <chapter_id>" section, and the summary that starts with the *)
(* "<!-- SUMMARY -->" marker); the date of the header is left out           *)

\* what _write_report_header writes: the "**Commit:**" line, and the number
\* of the "**Chapters:**" line
HeaderBlock(chapter_list, commit_string) ==
    [kind |-> "header",
     commit_line |-> "**Commit:** " \o U_0060 \o commit_string \o U_0060,
     chapters |-> Len(chapter_list)]

\* the offset of the first c of the text from offset lo on, or len(text)
FirstChar(text, lo, c) ==
    IF \E j \in lo..(Len(text) - 1) : At(text, j) = c
    THEN CHOOSE j \in lo..(Len(text) - 1) :
            At(text, j) = c /\ \A k \in lo..(j - 1) : At(text, k) # c
    ELSE Len(text)

\* line.split(c)[1] if c in line else ""
SecondField(line, c) ==
    IF FirstChar(line, 0, c) = Len(line) THEN ""
    ELSE Slice(line, FirstChar(line, 0, c) + 1,
               FirstChar(line, FirstChar(line, 0, c) + 1, c))

\* what _append_chapter_result appends
ChapterBlock(chapter_id, discs) ==
    [kind |-> "chapter", chapter_id |-> chapter_id, counts |-> Counter(discs),
     total |-> Len(discs),
     details |-> [n \in 1..Len(OfSeverity(discs, HIGH)) |->
                     [location |-> OfSeverity(discs, HIGH)[n].location,
                      description |-> OfSeverity(discs, HIGH)[n].description]]]

\* the summary of _write_report_summary, from the marker on
SummaryBlock(all_results, completed, total) ==
    [kind |-> "summary", completed |-> completed, total |-> total,
     counts |-> TotalCounts(all_results, None)]

\* a file that does not exist
NoFile == [exists |-> FALSE, blocks |-> <<>>]

\* the indices of the blocks of the given kind
BlocksOfKind(blocks, kind) == {n \in 1..Len(blocks) : blocks[n].kind = kind}

\* the smallest number of a non-empty set of numbers
Least(S) == CHOOSE n \in S : \A m \in S : n <= m

\* _parse_existing_report: <<commit, completed chapters>>
_parse_existing_report(file) ==
    IF ~file.exists THEN <<"", {}>>
    ELSE <<IF BlocksOfKind(file.blocks, "header") = {} THEN ""
           ELSE SecondField(file.blocks[Least(BlocksOfKind(file.blocks, "header"))].commit_line,
                            U_0060),
           {file.blocks[n].chapter_id : n \in BlocksOfKind(file.blocks, "chapter")}>>

\* open(report_path, "w") and the header
_write_report_header(chapter_list, commit_string) ==
    [exists |-> TRUE, blocks |-> <<HeaderBlock(chapter_list, commit_string)>>]

\* open(report_path, "a") and the section of the chapter
_append_chapter_result(file, chapter_id, discs) ==
    [exists |-> TRUE, blocks |-> Append(file.blocks, ChapterBlock(chapter_id, discs))]

\* content[: content.index(marker)] when the marker is in the content
BeforeMarker(blocks) ==
    IF BlocksOfKind(blocks, "summary") = {} THEN blocks
    ELSE SubSeq(blocks, 1, Least(BlocksOfKind(blocks, "summary")) - 1)

\* the content up to the marker, then the new summary
_write_report_summary(file, all_results, completed, total) ==
    [exists |-> TRUE,
     blocks |-> Append(BeforeMarker(file.blocks), SummaryBlock(all_results, completed, total))]

\* the same-commit resume: existing_commit == commit and existing_chapters
Resumes(existing, commit_string) == existing[1] = commit_string /\ existing[2] # {}

\* the HIGH records of the algorithmic check alone
HighCountAlgorithmic(all_results) ==
    Cardinality({p \in UNION {{<<c, k>> : k \in 1..Len(all_results[c])} : c \in DOMAIN all_results} :
                    /\ all_results[p[1]][p[2]].severity = HIGH
                    /\ all_results[p[1]][p[2]].source = "algorithmic"})

\* high_count
HighCount(all_results) == TotalCounts(all_results, None)[HIGH]

\* an except clause for FileNotFoundError alone
CaughtFileNotFound == {"FileNotFoundError"}

\* the exceptions the batches catch around compare_chapter
Caught == {"FileNotFoundError", "KeyError"}

-----------------------------------------------------------------------------
(* The batches: compare_chapters, and main from its arguments to its exit   *)
(* code                                                                     *)

MaxChapters == 2

\* two chapters of the registry and an identifier that is not in it
ChapterIds == {"ch200", "ch300", "ch999"}

RECURSIVE ChapterLists(_)
ChapterLists(n) ==
    IF n = 0 THEN {<<>>}
    ELSE ChapterLists(n - 1) \cup {Append(l, c) : l \in ChapterLists(n - 1), c \in ChapterIds}

SourceFiles == {CHAPTER_MAP[c][kind] : c \in DOMAIN CHAPTER_MAP, kind \in {"html", "txt"}}

\* the text of each source file (for an HTML source, of its body)
SourceContent ==
    (CHAPTER_MAP["ch200"].txt :> "see 512.3(A) of the")
    @@ (CHAPTER_MAP["ch200"].html :> "see 512.4(A) ofthe")
    @@ (CHAPTER_MAP["ch300"].txt :> "NO. 5 is")
    @@ (CHAPTER_MAP["ch300"].html :> "No. 5  is")

\* the file systems: the HTML source of ch300 is there in all of them
FileSystems == {S \cup {CHAPTER_MAP["ch300"].html} : S \in SUBSET SourceFiles}

ThisCommit == "abc1234 Fix typo"

\* a commit whose subject line quotes a name in backticks
QuotingCommit == "5d0c2aa Fix " \o U_0060 \o "toc" \o U_0060 \o " rule"

\* what _get_git_commit() may give
Commits == {ThisCommit, QuotingCommit}

\* the report of an earlier run that tested ch300, on the given commit
EarlierReport(commit_string) ==
    [exists |-> TRUE,
     blocks |-> <<HeaderBlock(<<"ch300">>, commit_string), ChapterBlock("ch300", <<>>),
                  SummaryBlock([c \in {"ch300"} |-> <<>>], 1, 1)>>]

\* the files that may be at report_path when main starts on the commit
ReportFiles(commit_string) ==
    {NoFile, EarlierReport(commit_string), EarlierReport("9fceb02 Add chapter")}

\* the JSON arrays of the responses of the LLM: none, one finding, and a
\* finding with a severity the enum lacks after one that names a source
LlmResponses ==
    {<<>>,
     <<[severity |-> "high", location |-> "201", description |-> "Missing paragraph"]>>,
     <<[severity |-> "Low", description |-> "Reworded", source |-> "algorithmic"],
       [severity |-> "critical", pdf_text |-> "shall", html_text |-> "may"]>>}

\* what the LLM check may give for a chapter: nothing when the call fails or
\* the sources are missing, or else the findings of a response
LlmFindings(chapter_id, existing) ==
    IF LoadError(chapter_id, existing) # None THEN {<<>>}
    ELSE {_parse_llm_response(items, chapter_id) : items \in LlmResponses}

\* an empty dict
EmptyDict == [c \in {} |-> <<>>]

InitBatch ==
    /\ pc = "batch"
    /\ RetryIdle
    /\ ChunksIdle
    /\ WorkersIdle
    /\ caller \in {"compare_chapters", "main"}
    /\ chapters \in ChapterLists(MaxChapters)
    /\ files \in FileSystems
    /\ IF caller = "main"
       THEN /\ mode \in {"algo", "llm", "all"}
            /\ output_format \in {"console", "all"}
            /\ severity_filter \in {None, HIGH}
            /\ report_path \in {None, "PDF_TEXT_TESTS.md"}
            /\ commit \in (IF report_path = None THEN {ThisCommit} ELSE Commits)
            /\ report_file \in (IF report_path = None THEN {NoFile} ELSE ReportFiles(commit))
       ELSE /\ mode = None
            /\ output_format = None
            /\ severity_filter = None
            /\ report_path = None
            /\ commit = ThisCommit
            /\ report_file = NoFile
    /\ results = EmptyDict
    /\ skip_chapters = {}
    /\ idx = 0
    /\ calls = <<>>
    /\ completed_count = 0
    /\ llm_results = EmptyDict
    /\ exit_code = None
    /\ console_report = <<>>
    /\ markdown_report = <<>>
    /\ json_report = <<>>
    /\ ClassifyIdle
    /\ NormalizeIdle
    /\ CompareIdle

\* a call of compare_chapter as the batches see it, with the results of the
\* batch before and after the handling of what the call gave
CallRecord(position, chapter_id, r, before, after) ==
    [position |-> position, chapter_id |-> chapter_id, raised |-> r.raised,
     touched |-> r.touched, returned |-> r.returned, before |-> before, after |-> after]

\* results = {}
CompareChaptersStart ==
    /\ pc = "batch"
    /\ caller = "compare_chapters"
    /\ results' = EmptyDict
    /\ pc' = "chapters"
    /\ UNCHANGED <<severity_filter, console_report, markdown_report, json_report>>
    /\ UNCHANGED <<classify_vars, normalize_vars, compare_vars, batch_vars, worker_vars, chunk_vars, retry_vars>>

\* one iteration of "for chapter_id in chapter_ids"
CompareChaptersStep ==
    /\ pc = "chapters"
    /\ idx < Len(chapters)
    /\ \E r \in {compare_chapter(chapters[idx + 1], files, SourceContent)} :
          IF r.raised = None \/ r.raised \in Caught
          THEN /\ results' = (chapters[idx + 1] :> (IF r.raised = None THEN r.returned ELSE <<>>))
                             @@ results
               /\ calls' = Append(calls, CallRecord(idx + 1, chapters[idx + 1], r, results, results'))
               /\ idx' = idx + 1
               /\ pc' = "chapters"
          ELSE /\ pc' = "raised"
               /\ UNCHANGED <<results, calls, idx>>
    /\ UNCHANGED <<severity_filter, console_report, markdown_report, json_report>>
    /\ UNCHANGED <<caller, chapters, files, mode, output_format, report_path, commit,
                   report_file, skip_chapters, completed_count, llm_results, exit_code>>
    /\ UNCHANGED <<classify_vars, normalize_vars, compare_vars, worker_vars, chunk_vars, retry_vars>>

\* return results
CompareChaptersReturn ==
    /\ pc = "chapters"
    /\ idx = Len(chapters)
    /\ pc' = "returned"
    /\ UNCHANGED <<classify_vars, normalize_vars, compare_vars, report_vars, batch_vars, worker_vars, chunk_vars, retry_vars>>

\* main up to the algorithmic check: no chapters, the resume, all_results
MainStart ==
    /\ pc = "batch"
    /\ caller = "main"
    /\ IF chapters = <<>>
       THEN /\ exit_code' = 0
            /\ pc' = "exited"
            /\ UNCHANGED <<results, skip_chapters, report_file, completed_count>>
       ELSE /\ \E existing \in {_parse_existing_report(report_file)} :
                  IF report_path # None /\ Resumes(existing, commit)
                  THEN skip_chapters' = existing[2] /\ UNCHANGED report_file
                  ELSE /\ skip_chapters' = {}
                       /\ report_file' = IF report_path # None
                                         THEN _write_report_header(chapters, commit)
                                         ELSE report_file
            /\ results' = [c \in Range(chapters) |-> <<>>]
            /\ completed_count' = Cardinality(skip_chapters' \cap Range(chapters))
            /\ pc' = IF mode \in {"algo", "all"} THEN "algo" ELSE "llm"
            /\ UNCHANGED exit_code
    /\ UNCHANGED <<severity_filter, console_report, markdown_report, json_report>>
    /\ UNCHANGED <<caller, chapters, files, mode, output_format, report_path, commit,
                   idx, calls, llm_results>>
    /\ UNCHANGED <<classify_vars, normalize_vars, compare_vars, worker_vars, chunk_vars, retry_vars>>

\* where main goes after the last chapter of the algorithmic check
AfterAlgo == IF mode = "all" THEN "llm" ELSE "output"

\* one iteration of "for idx, chapter_id in enumerate(chapters, 1)"
MainAlgoStep ==
    /\ pc = "algo"
    /\ idx < Len(chapters)
    /\ IF chapters[idx + 1] \in skip_chapters
       THEN /\ idx' = idx + 1
            /\ pc' = IF idx' = Len(chapters) THEN AfterAlgo ELSE "algo"
            /\ UNCHANGED <<results, calls, completed_count, report_file>>
       ELSE \E r \in {compare_chapter(chapters[idx + 1], files, SourceContent)} :
               IF r.raised = None \/ r.raised \in Caught
               THEN /\ results' = [results EXCEPT ![chapters[idx + 1]] =
                                      IF r.raised = None THEN extend(@, r.returned) ELSE <<>>]
                    /\ calls' = Append(calls, CallRecord(idx + 1, chapters[idx + 1], r, results, results'))
                    /\ completed_count' = completed_count + 1
                    /\ report_file' =
                          IF report_path # None
                          THEN _write_report_summary(
                                   _append_chapter_result(report_file, chapters[idx + 1],
                                                          results'[chapters[idx + 1]]),
                                   results', completed_count', Len(chapters))
                          ELSE report_file
                    /\ idx' = idx + 1
                    /\ pc' = IF idx' = Len(chapters) THEN AfterAlgo ELSE "algo"
               ELSE /\ pc' = "raised"
                    /\ UNCHANGED <<results, calls, completed_count, report_file, idx>>
    /\ UNCHANGED <<severity_filter, console_report, markdown_report, json_report>>
    /\ UNCHANGED <<caller, chapters, files, mode, output_format, report_path, commit,
                   skip_chapters, llm_results, exit_code>>
    /\ UNCHANGED <<classify_vars, normalize_vars, compare_vars, worker_vars, chunk_vars, retry_vars>>

\* llm_results = check_chapters_with_llm(chapters), and the extend of each
\* list of all_results by that of llm_results
MainLlmCheck ==
    /\ pc = "llm"
    /\ llm_results' \in [Range(chapters) -> UNION {LlmFindings(c, files) : c \in Range(chapters)}]
    /\ \A c \in Range(chapters) : llm_results'[c] \in LlmFindings(c, files)
    /\ results' = [c \in DOMAIN results |-> extend(results[c], llm_results'[c])]
    /\ pc' = "output"
    /\ UNCHANGED <<severity_filter, console_report, markdown_report, json_report>>
    /\ UNCHANGED <<caller, chapters, files, mode, output_format, report_path, commit,
                   report_file, skip_chapters, idx, calls, completed_count, exit_code>>
    /\ UNCHANGED <<classify_vars, normalize_vars, compare_vars, worker_vars, chunk_vars, retry_vars>>

\* the reports of the chosen format, and the exit code
MainOutput ==
    /\ pc = "output"
    /\ console_report' = IF output_format \in {"console", "all"}
                         THEN <<print_console_report(results, severity_filter)>> ELSE <<>>
    /\ markdown_report' = IF output_format \in {"markdown", "all"}
                          THEN <<generate_markdown_report(results, severity_filter)>> ELSE <<>>
    /\ json_report' = IF output_format \in {"json", "all"}
                      THEN <<generate_json_report(results, severity_filter)>> ELSE <<>>
    /\ exit_code' = IF HighCount(results) > 0 THEN 1 ELSE 0
    /\ pc' = "exited"
    /\ UNCHANGED <<results, severity_filter>>
    /\ UNCHANGED <<caller, chapters, files, mode, output_format, report_path, commit,
                   report_file, skip_chapters, idx, calls, completed_count, llm_results>>
    /\ UNCHANGED <<classify_vars, normalize_vars, compare_vars, worker_vars, chunk_vars, retry_vars>>

NextBatch ==
    \/ CompareChaptersStart
    \/ CompareChaptersStep
    \/ CompareChaptersReturn
    \/ MainStart
    \/ MainAlgoStep
    \/ MainLlmCheck
    \/ MainOutput

SpecBatch == InitBatch /\ [][NextBatch]_vars

\* the loop over the chapters has ended
LoopDone ==
    \/ caller = "compare_chapters" /\ pc = "returned"
    \/ caller = "main" /\ mode \in {"algo", "all"} /\ pc \in {"llm", "output", "exited"}
       /\ chapters # <<>>

\* the call failed with a missing-source or unknown-chapter error
Failed(call) == call.raised \in {"FileNotFoundError", "KeyError"}

\* the chapter at the position was compared
ComparedAt(position) == \E n \in 1..Len(calls) : calls[n].position = position

\* the failure of a call is handled: an empty list for its chapter, and the
\* lists of the other chapters as they were
FailureHandled(call) ==
    /\ call.chapter_id \in DOMAIN call.after
    /\ call.after[call.chapter_id] = <<>>
    /\ \A c \in DOMAIN call.before \ {call.chapter_id} :
          c \in DOMAIN call.after /\ call.after[c] = call.before[c]

\* no failure ends the batch, each is handled, and once the loop has ended
\* every chapter after a failed one has been compared, but for those in
\* exempt, and every chapter asked for has an entry
BatchSurvivesFailures(exempt) ==
    /\ pc # "raised"
    /\ \A n \in 1..Len(calls) : Failed(calls[n]) => FailureHandled(calls[n])
    /\ LoopDone =>
          /\ \A n \in 1..Len(calls) :
                Failed(calls[n]) =>
                    \A later \in (calls[n].position + 1)..Len(chapters) :
                        ComparedAt(later) \/ chapters[later] \in exempt
          /\ DOMAIN results = Range(chapters)

\* C11 as stated: a chapter that fails with a missing-source or
\* unknown-chapter error is recorded with an empty list, the results of the
\* other chapters stay as they are, every later chapter of the list is
\* still compared, and the mapping has an entry for every chapter asked for.
C11_EveryLaterChapterCompared == BatchSurvivesFailures({})

\* C11: a chapter that fails with a missing-source or unknown-chapter error
\* is recorded with an empty list, the results of the other chapters stay as
\* they are, every later chapter of the list is still compared unless the
\* same-commit resume of main has it as already tested, and the mapping has
\* an entry for every chapter asked for.
C11_FailureNeverAbortsBatch == BatchSurvivesFailures(skip_chapters)

\* main: the first chapter is unknown, the second is compared after it and
\* has discrepancies
C11_Witness ==
    /\ caller = "main"
    /\ LoopDone
    /\ Len(calls) = 2
    /\ calls[1].position = 1
    /\ calls[1].raised = "KeyError"
    /\ calls[2].position = 2
    /\ calls[2].raised = None
    /\ Len(results[calls[2].chapter_id]) > 0
    /\ results[calls[1].chapter_id] = <<>>

\* C12: compare_chapter raises KeyError for an identifier that is not in
\* the registry, without touching a file, and FileNotFoundError when the
\* HTML file or the PDF text file of the entry does not exist; the error
\* reaches the caller, which gets no list.
C12_CompareChapterRaises ==
    \A n \in 1..Len(calls) :
        /\ calls[n].chapter_id \notin DOMAIN CHAPTER_MAP =>
              calls[n].raised = "KeyError" /\ calls[n].touched = {}
        /\ (/\ calls[n].chapter_id \in DOMAIN CHAPTER_MAP
            /\ \/ CHAPTER_MAP[calls[n].chapter_id].html \notin files
               \/ CHAPTER_MAP[calls[n].chapter_id].txt \notin files) =>
              calls[n].raised = "FileNotFoundError"
        /\ Failed(calls[n]) =>
              calls[n].returned = None /\ calls[n].after[calls[n].chapter_id] = <<>>

\* an unknown chapter, then a chapter whose HTML source is there and whose
\* PDF text is not
C12_Witness ==
    /\ Len(calls) = 2
    /\ calls[1].raised = "KeyError"
    /\ calls[1].touched = {}
    /\ calls[2].raised = "FileNotFoundError"
    /\ CHAPTER_MAP[calls[2].chapter_id].html \in files
    /\ calls[2].returned = None

\* the records at the places that both mappings have are the same
SameRecords(old, new) ==
    \A c \in DOMAIN old \cap DOMAIN new :
        \A k \in 1..Min(Len(old[c]), Len(new[c])) : new[c][k] = old[c][k]

\* C20: no step of a batch changes a Discrepancy that the results hold: the
\* aggregation only adds records after those that are there, and the
\* renderers, their filter and sort included, leave the results as they are.
C20_DiscrepancyNeverChanged ==
    [][/\ SameRecords(results, results')
       /\ pc = "output" => results' = results]_vars

\* main has rendered, under a HIGH filter, a chapter whose list holds a
\* MEDIUM record before a HIGH one of the LLM check
C20_Witness ==
    /\ pc = "exited"
    /\ severity_filter = HIGH
    /\ json_report # <<>>
    /\ markdown_report # <<>>
    /\ \E c \in DOMAIN results :
          /\ Len(results[c]) >= 2
          /\ results[c][1].severity # HIGH
          /\ results[c][Len(results[c])].severity = HIGH
          /\ results[c][Len(results[c])].source = "llm"
          /\ Len(json_report[1][c]) < Len(results[c])

\* what the first n calls of compare_chapter returned for the chapter, in
\* the order of the calls
RECURSIVE AlgorithmicOf(_, _)
AlgorithmicOf(chapter_id, n) ==
    IF n = 0 THEN <<>>
    ELSE AlgorithmicOf(chapter_id, n - 1)
         \o (IF calls[n].chapter_id = chapter_id /\ calls[n].raised = None
             THEN calls[n].returned ELSE <<>>)

\* what the LLM check returned for the chapter, if it has run
LlmOf(chapter_id) ==
    IF chapter_id \in DOMAIN llm_results THEN llm_results[chapter_id] ELSE <<>>

\* C21: every Discrepancy that compare_chapter returns has the source
\* 'algorithmic' and every one made from an LLM response the source 'llm';
\* and once main has run its checks, the list of each chapter is what
\* compare_chapter returned for it, in that order, followed by what the LLM
\* check returned for it, in that order, every record kept.
C21_ProvenanceAndConcatenation ==
    /\ \A n \in 1..Len(calls) :
          calls[n].raised = None =>
              \A k \in 1..Len(calls[n].returned) : calls[n].returned[k].source = "algorithmic"
    /\ \A c \in DOMAIN llm_results :
          \A k \in 1..Len(llm_results[c]) : llm_results[c][k].source = "llm"
    /\ (caller = "main" /\ pc \in {"output", "exited"} /\ chapters # <<>>) =>
          \A c \in DOMAIN results :
              results[c] = AlgorithmicOf(c, Len(calls)) \o LlmOf(c)

\* main has run both checks on a chapter: two algorithmic records, then the
\* two of an LLM response whose first item names another source
C21_Witness ==
    /\ caller = "main"
    /\ mode = "all"
    /\ pc = "exited"
    /\ \E c \in DOMAIN results :
          /\ Len(AlgorithmicOf(c, Len(calls))) >= 2
          /\ Len(LlmOf(c)) = 2
          /\ Len(results[c]) = Len(AlgorithmicOf(c, Len(calls))) + 2
          /\ results[c][1].source = "algorithmic"
          /\ results[c][Len(results[c])].source = "llm"

-----------------------------------------------------------------------------
(* Calls of compare_chapter that run at the same time, each a thread of its *)
(* own, a step of one after a step of another in any order                  *)

MaxWorkers == 2

Workers == 1..MaxWorkers

\* the locals of a call of compare_chapter that has not run a statement yet
NewCall(chapter_id) ==
    [chapter_id |-> chapter_id, at |-> "start", html_text |-> "", pdf_text |-> "",
     pdf_stripped |-> "", pdf_map |-> <<>>, html_stripped |-> "", html_map |-> <<>>,
     opcodes |-> <<>>, op_idx |-> 0, discrepancies |-> <<>>, exception |-> None]

\* an assignment to names that all the calls share
AssignShared(all, w, locals) == [v \in DOMAIN all |-> locals]

\* an assignment to the local names of the call w
AssignLocal(all, w, locals) == [all EXCEPT ![w] = locals]

InitWorkers ==
    /\ pc = "workers"
    /\ RetryIdle
    /\ ChunksIdle
    /\ disk \in FileSystems
    /\ requests \in [Workers -> ChapterIds]
    /\ workers = [w \in Workers |-> NewCall(requests[w])]
    /\ ClassifyIdle
    /\ NormalizeIdle
    /\ CompareIdle
    /\ ReportIdle
    /\ BatchIdle

\* the locals after get_chapter_texts, the index maps and the matcher
Loaded(call, texts, ps, hs) ==
    IF texts.raised # None
    THEN [call EXCEPT !.at = "raised", !.exception = texts.raised]
    ELSE [call EXCEPT !.at = "scan", !.html_text = texts.html_text,
                      !.pdf_text = texts.pdf_text,
                      !.pdf_stripped = ps.stripped, !.pdf_map = ps.index_map,
                      !.html_stripped = hs.stripped, !.html_map = hs.index_map,
                      !.opcodes = get_opcodes(ps.stripped, hs.stripped)]

\* texts that get_chapter_texts did not return, as text to strip
TextOrEmpty(text) == IF text = None THEN "" ELSE text

\* the call w runs from its first statement to the loop
WorkerLoad(w) ==
    /\ pc = "workers"
    /\ workers[w].at = "start"
    /\ \E texts \in {get_chapter_texts(workers[w].chapter_id, disk, SourceContent)} :
          workers' = AssignLocal(workers, w,
                                 Loaded(workers[w], texts,
                                        _strip_whitespace(TextOrEmpty(texts.pdf_text)),
                                        _strip_whitespace(TextOrEmpty(texts.html_text))))
    /\ UNCHANGED <<pc, requests, disk>>
    /\ UNCHANGED <<classify_vars, normalize_vars, compare_vars, report_vars, batch_vars, chunk_vars, retry_vars>>

\* the locals after one iteration of the loop over the operation op
Scanned(call, op) ==
    IF SkipsOp(op) THEN [call EXCEPT !.op_idx = @ + 1]
    ELSE [call EXCEPT !.op_idx = @ + 1,
                      !.discrepancies =
                          append(@, LoopBody(call.chapter_id, call.pdf_text, call.html_text,
                                             [stripped |-> call.pdf_stripped,
                                              index_map |-> call.pdf_map],
                                             [stripped |-> call.html_stripped,
                                              index_map |-> call.html_map],
                                             op).outcome)]

\* the call w runs one iteration of its loop
WorkerScanOp(w) ==
    /\ pc = "workers"
    /\ workers[w].at = "scan"
    /\ workers[w].op_idx < Len(workers[w].opcodes)
    /\ workers' = AssignLocal(workers, w,
                              Scanned(workers[w], workers[w].opcodes[workers[w].op_idx + 1]))
    /\ UNCHANGED <<pc, requests, disk>>
    /\ UNCHANGED <<classify_vars, normalize_vars, compare_vars, report_vars, batch_vars, chunk_vars, retry_vars>>

\* the call w returns its list
WorkerReturn(w) ==
    /\ pc = "workers"
    /\ workers[w].at = "scan"
    /\ workers[w].op_idx = Len(workers[w].opcodes)
    /\ workers' = AssignLocal(workers, w, [workers[w] EXCEPT !.at = "returned"])
    /\ UNCHANGED <<pc, requests, disk>>
    /\ UNCHANGED <<classify_vars, normalize_vars, compare_vars, report_vars, batch_vars, chunk_vars, retry_vars>>

NextWorkers == \E w \in Workers : WorkerLoad(w) \/ WorkerScanOp(w) \/ WorkerReturn(w)

SpecWorkers == InitWorkers /\ [][NextWorkers]_vars

\* what the call w gives when it runs alone
Alone(w) == compare_chapter(requests[w], disk, SourceContent)

\* the call w has ended as it ends alone
EndsAsAlone(w, alone) ==
    /\ workers[w].at = "returned" =>
          alone.raised = None /\ workers[w].discrepancies = alone.returned
    /\ workers[w].at = "raised" => workers[w].exception = alone.raised

\* C22: calls of compare_chapter share no state that any of them writes: run
\* in any interleaving, each call ends with the list, or the exception,
\* that it gives when it runs alone.
C22_NoSharedMutableState ==
    \A w \in Workers : EndsAsAlone(w, Alone(w))

\* two calls for different chapters, run at the same time, have both
\* returned discrepancies, and not the same ones
C22_Witness ==
    /\ pc = "workers"
    /\ requests[1] # requests[2]
    /\ workers[1].at = "returned"
    /\ workers[2].at = "returned"
    /\ Len(workers[1].discrepancies) > 0
    /\ Len(workers[2].discrepancies) > 0
    /\ workers[1].discrepancies # workers[2].discrepancies


(***************************************************************************)
(* The incremental report of main                                          *)
(***************************************************************************)

\* main runs the algorithmic check with --report and started a fresh report
FreshReportRun ==
    /\ caller = "main"
    /\ report_path # None
    /\ mode \in {"algo", "all"}
    /\ pc \in {"algo", "llm", "output", "exited"}
    /\ skip_chapters = {}

\* C23: when main runs the algorithmic check with --report on a fresh report,
\* after the k-th chapter has been processed the file holds the header, one
\* section for each of the first k chapters in processing order, and one
\* summary at the end reading (k/n chapters); no section is lost by a later
\* rewrite of the summary.
C23_IncrementalReport ==
    (FreshReportRun /\ idx >= 1) =>
        /\ Len(report_file.blocks) = idx + 2
        /\ report_file.blocks[1].kind = "header"
        /\ \A i \in 1..idx :
              /\ report_file.blocks[i + 1].kind = "chapter"
              /\ report_file.blocks[i + 1].chapter_id = chapters[i]
        /\ report_file.blocks[idx + 2].kind = "summary"
        /\ report_file.blocks[idx + 2].completed = idx
        /\ report_file.blocks[idx + 2].total = Len(chapters)

\* the commit that the header of the file records: the commit line without
\* the label and the two backticks that _write_report_header puts around it
RecordedCommit(file) ==
    Slice(file.blocks[1].commit_line, 13, Len(file.blocks[1].commit_line) - 1)

\* the chapters that the file lists a section of
ListedChapters(file) ==
    {file.blocks[n].chapter_id : n \in BlocksOfKind(file.blocks, "chapter")}

\* C24: if the report file exists, its recorded commit equals the current
\* commit and it lists at least one chapter section, main keeps the content
\* of the file and skips the chapters listed in it; otherwise main overwrites
\* the file with a fresh header and skips no chapter.
C24_SameCommitResume ==
    [][(pc = "batch" /\ caller = "main" /\ report_path # None /\ chapters # <<>>
           /\ pc' # "batch")
        => IF /\ report_file.exists
              /\ RecordedCommit(report_file) = commit
              /\ ListedChapters(report_file) # {}
           THEN /\ report_file' = report_file
                /\ skip_chapters' = ListedChapters(report_file)
           ELSE /\ report_file' = _write_report_header(chapters, commit)
                /\ skip_chapters' = {}]_vars


(***************************************************************************)
(* The exit code of main                                                   *)
(***************************************************************************)

\* a HIGH record is among those the checkers returned in this run
HighCollected ==
    \/ \E n \in 1..Len(calls) :
          /\ calls[n].raised = None
          /\ \E k \in 1..Len(calls[n].returned) : calls[n].returned[k].severity = HIGH
    \/ \E c \in DOMAIN llm_results :
          \E k \in 1..Len(llm_results[c]) : llm_results[c][k].severity = HIGH

\* C25: main returns 1 if and only if a HIGH discrepancy is among the results
\* that either checker collected in this run, whatever the severity filter
\* and the output format; it returns 0 otherwise, and 0 when no chapter is
\* selected.
C25_ExitCode ==
    (caller = "main" /\ pc = "exited") =>
        /\ exit_code \in {0, 1}
        /\ exit_code = 1 <=> (chapters # <<>> /\ HighCollected)

\* main has exited with 1 on a HIGH record of the LLM check alone
C25_Witness ==
    /\ caller = "main"
    /\ pc = "exited"
    /\ exit_code = 1
    /\ mode = "all"
    /\ \A n \in 1..Len(calls) :
          calls[n].raised = None =>
              \A k \in 1..Len(calls[n].returned) : calls[n].returned[k].severity # HIGH
    /\ \E c \in DOMAIN llm_results :
          \E k \in 1..Len(llm_results[c]) : llm_results[c][k].severity = HIGH


-----------------------------------------------------------------------------
(* scripts/process_pdfs_chunked.py: split_pdf_into_chunks *)

MaxPages == 6

MaxChunkSize == 4

\* a chunk number that no call reaches: no read and no write raises
NoIoError == 2 * MaxPages + 2

\* chunk_end_page without the bound of the last page
chunk_end_unbounded(page, size, total) == page + size

\* chunk_end_page = min(current_page + chunk_size, total_pages)
ChunkEndPage(page, size, total) == Min(page + size, total)

\* the next start without the overlap
next_start_at_end(end_page, pages_shared) == end_page

\* next_start_page = chunk_end_page - overlap
NextStartPage(end_page, pages_shared) == end_page - pages_shared

\* "if next_start_page <= current_page: next_start_page = chunk_end_page"
ForcedProgress(next_start, page, end_page) ==
    IF next_start <= page THEN end_page ELSE next_start

InitChunks ==
    /\ pc = "split"
    /\ total_pages \in 0..MaxPages
    /\ chunk_size \in 0..MaxChunkSize
    /\ overlap \in (0 - 1)..MaxChunkSize
    /\ io_error_at \in {0, 2, NoIoError}
    /\ current_page = 0
    /\ chunk_index = 0
    /\ chunk_pages = <<>>
    /\ split_exit = None
    /\ ClassifyIdle
    /\ NormalizeIdle
    /\ CompareIdle
    /\ ReportIdle
    /\ BatchIdle
    /\ WorkersIdle
    /\ RetryIdle

\* chunks = [], the reader, the test for a PDF without pages, and the two
\* counters
SplitStart ==
    /\ pc = "split"
    /\ IF io_error_at = 0
       THEN split_exit' = "failed" /\ pc' = "split_done"
       ELSE IF total_pages = 0
       THEN split_exit' = "no_pages" /\ pc' = "split_done"
       ELSE split_exit' = split_exit /\ pc' = "chunking"
    /\ current_page' = 0
    /\ chunk_index' = 0
    /\ chunk_pages' = <<>>
    /\ UNCHANGED <<total_pages, chunk_size, overlap, io_error_at>>
    /\ UNCHANGED <<classify_vars, normalize_vars, compare_vars, report_vars, batch_vars, worker_vars, retry_vars>>

\* one iteration of "while current_page < total_pages", and the test of the
\* condition for the next
SplitStep ==
    /\ pc = "chunking"
    /\ \E chunk_end_page \in {ChunkEndPage(current_page, chunk_size, total_pages)} :
          IF current_page >= chunk_end_page
          THEN /\ pc' = "chunk_exit"
               /\ UNCHANGED <<current_page, chunk_index, chunk_pages, split_exit>>
          ELSE IF io_error_at = chunk_index + 1
          THEN /\ split_exit' = "failed"
               /\ pc' = "split_done"
               /\ UNCHANGED <<current_page, chunk_index, chunk_pages>>
          ELSE /\ chunk_pages' = append(chunk_pages, <<current_page + 1, chunk_end_page>>)
               /\ chunk_index' = chunk_index + 1
               /\ IF chunk_end_page = total_pages
                  THEN /\ pc' = "chunk_exit"
                       /\ UNCHANGED <<current_page, split_exit>>
                  ELSE \E next_start_page \in
                              {ForcedProgress(NextStartPage(chunk_end_page, overlap),
                                              current_page, chunk_end_page)} :
                          IF /\ NextStartPage(chunk_end_page, overlap) <= current_page
                             /\ next_start_page >= total_pages
                          THEN /\ pc' = "chunk_exit"
                               /\ UNCHANGED <<current_page, split_exit>>
                          ELSE /\ current_page' = next_start_page
                               /\ IF chunk_index' > total_pages * 2
                                  THEN split_exit' = "aborted" /\ pc' = "split_done"
                                  ELSE /\ split_exit' = split_exit
                                       /\ pc' = IF current_page' < total_pages
                                                THEN "chunking" ELSE "chunk_exit"
    /\ UNCHANGED <<total_pages, chunk_size, overlap, io_error_at>>
    /\ UNCHANGED <<classify_vars, normalize_vars, compare_vars, report_vars, batch_vars, worker_vars, retry_vars>>

\* "Splitting complete", return chunks
SplitReturn ==
    /\ pc = "chunk_exit"
    /\ split_exit' = "returned"
    /\ pc' = "split_done"
    /\ UNCHANGED <<total_pages, chunk_size, overlap, io_error_at, current_page, chunk_index,
                   chunk_pages>>
    /\ UNCHANGED <<classify_vars, normalize_vars, compare_vars, report_vars, batch_vars, worker_vars, retry_vars>>

NextChunks == SplitStart \/ SplitStep \/ SplitReturn

SpecChunks == InitChunks /\ [][NextChunks]_vars

\* the call is not suspended for ever: it has no blocking statement
SpecChunksFair == SpecChunks /\ WF_vars(NextChunks)

\* what the call returns: the chunks, or [] after a failure or an abort
SplitResult == IF split_exit = "returned" THEN chunk_pages ELSE <<>>

\* a PDF with a page, a chunk size above the overlap, an overlap that is
\* not negative, and no exception of the PDF library
SplitPreconditions ==
    /\ total_pages >= 1
    /\ chunk_size > overlap
    /\ overlap >= 0
    /\ io_error_at = NoIoError

\* the chunks start at page 1, end at the last page, hold between 1 and
\* chunk_size pages each, start overlap pages before the end of the chunk
\* before, and cover every page
ChunksCover(list) ==
    /\ Len(list) >= 1
    /\ list[1][1] = 1
    /\ list[Len(list)][2] = total_pages
    /\ \A k \in 1..Len(list) :
          /\ list[k][2] - list[k][1] + 1 >= 1
          /\ list[k][2] - list[k][1] + 1 <= chunk_size
    /\ \A k \in 2..Len(list) : list[k][1] - 1 = list[k - 1][2] - overlap
    /\ \A page \in 1..total_pages :
          \E k \in 1..Len(list) : list[k][1] <= page /\ page <= list[k][2]

-----------------------------------------------------------------------------
(* scripts/process_pdfs_chunked.py: make_api_call_with_retry *)

API_RETRY_DELAY_SECONDS == 15

\* one attempt more than API_MAX_RETRIES
MaxRetriesFour == 3 + 1

API_MAX_RETRIES == 3

\* "needle in text"
Contains(text, needle) ==
    \E i \in 0..(Len(text) - Len(needle)) : Slice(text, i, i + Len(needle)) = needle

\* 2**n for n >= 0
RECURSIVE PowerOfTwo(_)
PowerOfTwo(n) == IF n = 0 THEN 1 ELSE 2 * PowerOfTwo(n - 1)

\* the messages of the exceptions, other than ValueError, that an attempt raises
ErrorMessages ==
    {"429 Too Many Requests", "RATE_LIMIT_EXCEEDED", "503 Service Unavailable",
     "File processing failed", "Connection reset", "429 after 503"}

\* a call of model.generate_content that raises
Raising(error_class, message) ==
    [raises |-> error_class, message |-> message, candidates |-> 0, finish_reason |-> None,
     text |-> None, parts |-> None]

\* a call of model.generate_content that returns a response: the number of
\* its candidates, the finish reason of the first, what reading
\* response.text does, and the parts of the content of the candidate
Response(candidates, finish, text, parts) ==
    [raises |-> None, message |-> None, candidates |-> candidates, finish_reason |-> finish,
     text |-> text, parts |-> parts]

\* what a call of model.generate_content may do
ModelBehaviours ==
    {Raising("ValueError", "Unknown field")}
    \cup {Raising("Exception", m) : m \in ErrorMessages}
    \cup {Response(0, None, "ok", "none")}
    \cup {Response(1, "SAFETY", "ValueError", "none")}
    \cup {Response(1, f, t, "text") : f \in {"STOP", "MAX_TOKENS"}, t \in {"ok", "IndexError"}}
    \cup {Response(1, "STOP", "ValueError", ps) : ps \in {"none", "text", "function_call"}}

\* the try block on what the call gave: "pass" for "return response", or
\* the class of the exception that leaves the block
TryBlock(b) ==
    IF b.raises # None THEN b.raises
    ELSE IF b.candidates = 0 THEN "ValueError"
    ELSE IF b.finish_reason = "SAFETY" THEN "ValueError"
    ELSE IF b.text = "ValueError"
    THEN (IF b.parts # "none"
          THEN (IF b.parts = "function_call" THEN "ValueError" ELSE "pass")
          ELSE "ValueError")
    ELSE IF b.text # "ok" THEN "Exception"
    ELSE "pass"

\* str(e) of the exception that is not a ValueError
ErrorString(b) == IF b.raises # None THEN b.message ELSE "list index out of range"

\* wait_time of the except clause, for error_str and the retries so far
WaitTime(error_str, count) ==
    IF Contains(error_str, "rate_limit_exceeded") \/ Contains(error_str, "429")
    THEN API_RETRY_DELAY_SECONDS * PowerOfTwo(count)
    ELSE IF Contains(error_str, "503") \/ Contains(error_str, "service unavailable")
    THEN API_RETRY_DELAY_SECONDS * (count + 1)
    ELSE API_RETRY_DELAY_SECONDS * PowerOfTwo(count)

\* how the call ended
ApiExit(how, error, attempt) == [how |-> how, exception |-> error, attempt |-> attempt]

InitRetry ==
    /\ pc = "api_try"
    /\ retries = 0
    /\ attempts = <<>>
    /\ sleeps = <<>>
    /\ api_exit = ApiExit("running", None, 0)
    /\ ClassifyIdle
    /\ NormalizeIdle
    /\ CompareIdle
    /\ ReportIdle
    /\ BatchIdle
    /\ WorkersIdle
    /\ ChunksIdle

\* the try block of one iteration of "while retries < API_MAX_RETRIES", and
\* "except ValueError as ve: raise ve"
ApiTry ==
    /\ pc = "api_try"
    /\ \E b \in ModelBehaviours :
          /\ attempts' = Append(attempts, b)
          /\ IF TryBlock(b) = "pass"
             THEN api_exit' = ApiExit("returned", None, Len(attempts')) /\ pc' = "api_done"
             ELSE IF TryBlock(b) = "ValueError"
             THEN api_exit' = ApiExit("raised", "ValueError", Len(attempts')) /\ pc' = "api_done"
             ELSE api_exit' = api_exit /\ pc' = "api_except"
    /\ UNCHANGED <<retries, sleeps>>
    /\ UNCHANGED <<classify_vars, normalize_vars, compare_vars, report_vars, batch_vars, worker_vars, chunk_vars>>

\* "except Exception as e": the wait time, the counter, the bare raise or
\* time.sleep, and the test of the loop for the next iteration, after
\* which comes raise Exception("API call failed after multiple retries.")
ApiExcept ==
    /\ pc = "api_except"
    /\ retries' = retries + 1
    /\ IF retries' >= API_MAX_RETRIES
       THEN /\ api_exit' = ApiExit("raised", ErrorString(attempts[Len(attempts)]), Len(attempts))
            /\ pc' = "api_done"
            /\ UNCHANGED sleeps
       ELSE /\ sleeps' = Append(sleeps, WaitTime(lower(ErrorString(attempts[Len(attempts)])),
                                                 retries))
            /\ IF retries' < API_MAX_RETRIES
               THEN pc' = "api_try" /\ UNCHANGED api_exit
               ELSE /\ api_exit' = ApiExit("raised", "API call failed after multiple retries.",
                                           Len(attempts))
                    /\ pc' = "api_done"
    /\ UNCHANGED attempts
    /\ UNCHANGED <<classify_vars, normalize_vars, compare_vars, report_vars, batch_vars, worker_vars, chunk_vars>>

NextRetry == ApiTry \/ ApiExcept

SpecRetry == InitRetry /\ [][NextRetry]_vars


\* the attempt got a response without candidates: the prompt was blocked
Blocked(b) == b.raises = None /\ b.candidates = 0

\* the attempt got a response whose generation stopped for safety
SafetyStopped(b) == b.raises = None /\ b.candidates > 0 /\ b.finish_reason = "SAFETY"

\* the attempt got a response whose text cannot be read and that has no
\* parts, or a function call for its first part
Invalid(b) ==
    /\ b.raises = None
    /\ b.candidates > 0
    /\ b.text = "ValueError"
    /\ b.parts \in {"none", "function_call"}

\* the attempt ended in a ValueError
EndsInValueError(b) == b.raises = "ValueError" \/ Blocked(b) \/ SafetyStopped(b) \/ Invalid(b)

\* the attempt failed otherwise: the call, or the reading of the response,
\* raised an exception that is not a ValueError
FailsOtherwise(b) ==
    \/ b.raises \notin {None, "ValueError"}
    \/ b.raises = None /\ b.candidates > 0 /\ b.finish_reason # "SAFETY"
          /\ b.text \notin {"ok", "ValueError"}

\* the attempt passes the response checks
Passes(b) == ~EndsInValueError(b) /\ ~FailsOtherwise(b)

\* C30: the model is called at most API_MAX_RETRIES (3) times; the call
\* returns the response of the first attempt that passes the checks; an
\* attempt that ends in a ValueError (blocked, stopped for safety, invalid
\* structure) is re-raised at once, with no retry; every other failure is
\* followed by a wait and a new attempt, except the third, whose exception
\* is re-raised with no further wait or attempt.
C30_BoundedRetries ==
    pc \in {"api_try", "api_except", "api_done"} =>
        /\ Len(attempts) <= 3
        /\ \A n \in 1..(Len(attempts) - 1) : FailsOtherwise(attempts[n])
        /\ Len(sleeps) = (IF pc = "api_except" THEN Len(attempts) - 1
                          ELSE IF pc = "api_try" THEN Len(attempts)
                          ELSE Len(attempts) - 1)
        /\ \A n \in 1..Len(sleeps) : sleeps[n] > 0
        /\ pc = "api_done" =>
              /\ api_exit.attempt = Len(attempts)
              /\ Passes(attempts[Len(attempts)]) <=> api_exit.how = "returned"
              /\ EndsInValueError(attempts[Len(attempts)]) <=>
                    (api_exit.how = "raised" /\ api_exit.exception = "ValueError")
              /\ FailsOtherwise(attempts[Len(attempts)]) <=>
                    (/\ api_exit.how = "raised"
                     /\ api_exit.exception = ErrorString(attempts[Len(attempts)])
                     /\ Len(attempts) = 3)

\* the third attempt failed like the two before it: two waits, the second
\* twice the first, and the exception of the third attempt
C30_Witness ==
    /\ pc = "api_done"
    /\ Len(attempts) = 3
    /\ api_exit.how = "raised"
    /\ api_exit.exception = "503 Service Unavailable"
    /\ attempts[1].message = "429 Too Many Requests"
    /\ sleeps = <<15, 30>>

====
